---------------------------- MODULE Spec2Model ----------------------------
(***************************************************************************)
(* Model of the quota-request table parser (utils/parser.ts and the        *)
(* modules it uses).                                                       *)
(*                                                                         *)
(* A JavaScript string is a sequence of tokens.  A token is either one of  *)
(* the characters the parser inspects (tab, comma, semicolon, space,       *)
(* double quote, newline) or a word: a run of other characters, which the  *)
(* parser only ever compares as a whole.  "" is the empty sequence.        *)
(***************************************************************************)
EXTENDS Integers, Sequences, FiniteSets, TLC

TAB   == "\t"
COMMA == ","
SEMI  == ";"
SP    == " "
QUOTE == "\""
NL    == "\n"

EMPTY == << >>

\* The one-word string holding w.
W(w) == << w >>

(***************************************************************************)
(* JavaScript string primitives                                            *)
(***************************************************************************)

\* A character String.prototype.trim removes.
IsSpace(c) == c \in {SP, TAB, NL}

Min(S) == CHOOSE m \in S : \A n \in S : m <= n
Max(S) == CHOOSE m \in S : \A n \in S : n <= m

\* String.prototype.trim
trim(s) ==
    LET solid == { i \in 1..Len(s) : ~IsSpace(s[i]) }
    IN  IF solid = {} THEN EMPTY ELSE SubSeq(s, Min(solid), Max(solid))

\* String.prototype.split with a one-character separator
RECURSIVE split(_, _)
split(s, sep) ==
    LET at == { i \in 1..Len(s) : s[i] = sep }
    IN  IF at = {} THEN << s >>
        ELSE << SubSeq(s, 1, Min(at) - 1) >> \o split(SubSeq(s, Min(at) + 1, Len(s)), sep)

\* Array.prototype.join
RECURSIVE join(_, _)
join(parts, sep) ==
    IF Len(parts) = 0 THEN EMPTY
    ELSE IF Len(parts) = 1 THEN parts[1]
    ELSE parts[1] \o << sep >> \o join(Tail(parts), sep)

\* s.replace(/"/g, '')
stripQuotes(s) == SelectSeq(s, LAMBDA c : c # QUOTE)

\* (line.match(/c/g) || []).length
countChar(s, c) == Cardinality({ i \in 1..Len(s) : s[i] = c })

\* Lower-casing of one word, for the words the inputs and the code use; the
\* characters and the words without an upper case letter are their own lower
\* case.
lowerWord(w) ==
    CASE w = "ID"              -> "id"
      [] w = "Id"              -> "id"
      [] w = "RDQuota"         -> "rdquota"
      [] w = "QuotaId"         -> "quotaid"
      [] w = "Original ID"     -> "original id"
      [] w = "Subscription ID" -> "subscription id"
      [] w = "SubscriptionId"  -> "subscriptionid"
      [] w = "Request Type"    -> "request type"
      [] w = "UTC Ticket"      -> "utc ticket"
      [] w = "Ticket"          -> "ticket"
      [] w = "Type"            -> "type"
      [] w = "VM Type"         -> "vm type"
      [] w = "SKU"             -> "sku"
      [] w = "VmSize"          -> "vmsize"
      [] w = "Region"          -> "region"
      [] w = "Location"        -> "location"
      [] w = "Zone"            -> "zone"
      [] w = "Zones"           -> "zones"
      [] w = "Deployment Constraints" -> "deployment constraints"
      [] w = "Cores"           -> "cores"
      [] w = "Event ID"        -> "event id"
      [] w = "Core Count"      -> "core count"
      [] w = "Status"          -> "status"
      [] w = "Reason"          -> "reason"
      [] w = "State"           -> "state"
      [] w = "Title:"          -> "title:"
      [] w = "TITLE:"          -> "title:"
      [] w = "Zonal Enablement"   -> "zonal enablement"
      [] w = "Region Enablement"  -> "region enablement"
      [] w = "Region Enablement & Quota Increase" -> "region enablement & quota increase"
      [] w = "Quota Increase"     -> "quota increase"
      [] w = "Quota Decrease"     -> "quota decrease"
      [] w = "Region Limit Increase" -> "region limit increase"
      [] w = "Reserved Instances" -> "reserved instances"
      [] w = "Unknown"            -> "unknown"
      [] w = "N/A"                -> "n/a"
      [] w = "(XIO)"              -> "(xio)"
      [] w = "(Xio)"              -> "(xio)"
      [] w = "AZ Enablement/Whitelisting" -> "az enablement/whitelisting"
      [] w = "Region Enablement/Whitelisting" -> "region enablement/whitelisting"
      [] w = "Whitelisting/Quota Increase" -> "whitelisting/quota increase"
      [] w = "RI Enablement/Whitelisting" -> "ri enablement/whitelisting"
      [] w = "Capacity Review" -> "capacity review"
      [] w = "In Review" -> "in review"
      [] w = "Abandoned" -> "abandoned"
      [] w = "Fulfillment Actions Completed" -> "fulfillment actions completed"
      [] w = "Verification Successful" -> "verification successful"
      [] w = "Approved" -> "approved"
      [] w = "Backlogged" -> "backlogged"
      [] w = "Fulfilled" -> "fulfilled"
      [] w = "Pending" -> "pending"
      [] w = "Pending Customer Response" -> "pending customer response"
      [] w = "Quota Report" -> "quota report"
      [] w = "Exported by ops" -> "exported by ops"
      [] w = "D2" -> "d2"
      [] w = "D4" -> "d4"
      [] w = "ZONAL ENABLEMENT" -> "zonal enablement"
      [] w = "AUMENTO DE COTA" -> "aumento de cota"
      [] w = "Habilitação Zonal" -> "habilitação zonal"
      [] w = "Habilitação Regional" -> "habilitação regional"
      [] w = "Habilitação Regional & Aumento de Cota" -> "habilitação regional & aumento de cota"
      [] w = "Aumento de Cota" -> "aumento de cota"
      [] w = "Diminuição de Cota" -> "diminuição de cota"
      [] w = "Aumento de Limite Regional" -> "aumento de limite regional"
      [] w = "Instâncias Reservadas" -> "instâncias reservadas"
      [] OTHER -> w

\* String.prototype.toLowerCase
toLowerCase(s) == [ i \in 1..Len(s) |-> lowerWord(s[i]) ]


(***************************************************************************)
(* utils/cleaners.ts                                                       *)
(***************************************************************************)

cleanRegion(region) ==
    IF region = EMPTY THEN EMPTY ELSE trim(region)

\* The cleaner with the marker removed at the end of the value only.
cleanVmType_TrailingOnly(value) ==
    LET ended == trim(value)
    IN  IF ended # EMPTY /\ lowerWord(ended[Len(ended)]) = "(xio)"
        THEN trim(SubSeq(ended, 1, Len(ended) - 1))
        ELSE ended

\* value.replace(/\(XIO\)/gi, "").trim(): every occurrence of the marker,
\* in any letter case, is removed.
cleanVmType(value) ==
    IF value = EMPTY THEN EMPTY
    ELSE trim(SelectSeq(value, LAMBDA c : lowerWord(c) # "(xio)"))

(***************************************************************************)
(* utils/constants.ts                                                      *)
(***************************************************************************)

finalHeaders ==
    << "Subscription ID", "Request Type", "VM Type", "Region", "Zone", "Cores", "Status" >>

RequestTypeCodes ==
    { "ZONAL_ENABLEMENT", "REGIONAL_ENABLEMENT", "QUOTA_INCREASE",
      "REGION_ENABLEMENT_QUOTA_INCREASE", "REGION_LIMIT_INCREASE",
      "QUOTA_DECREASE", "RESERVED_INSTANCES", "UNKNOWN" }

Undefined == "undefined"

\* getVisibleHeaders with the comparison made against every code but the
\* unknown one: an unknown or missing code hides nothing.
getVisibleHeaders_KnownCodesOnly(headers, requestTypeCode) ==
    LET isZonal == requestTypeCode = "ZONAL_ENABLEMENT"
        known == requestTypeCode \in RequestTypeCodes \ { "UNKNOWN" }
    IN  SelectSeq(headers, LAMBDA col :
            /\ ~(col = "Cores" /\ isZonal)
            /\ ~(col = "Zone" /\ known /\ ~isZonal))

\* constants.ts, getVisibleHeaders: the filter keeps a column unless one of
\* its two tests returns false.
getVisibleHeaders(headers, requestTypeCode) ==
    LET isZonal == requestTypeCode = "ZONAL_ENABLEMENT"
    IN  SelectSeq(headers, LAMBDA col :
            /\ ~(col = "Cores" /\ isZonal)
            /\ ~(col = "Zone" /\ ~isZonal))

\* CategorySection, the memo visibleHeaders: every header while there is no
\* row, else the filter on the code of the first row.
sectionVisibleHeaders(data, headers) ==
    IF Len(data) = 0 THEN headers
    ELSE LET firstRow == data[1]
             isZonal == firstRow.requestTypeCode = "ZONAL_ENABLEMENT"
         IN  SelectSeq(headers, LAMBDA h :
                 /\ ~(h = "Cores" /\ isZonal)
                 /\ ~(h = "Zone" /\ ~isZonal))

\* DICTIONARY, the request types: the English label and its translation.
DICTIONARY ==
    [ label \in { "Zonal Enablement", "Region Enablement", "Region Enablement & Quota Increase",
                  "Quota Increase", "Quota Decrease", "Region Limit Increase",
                  "Reserved Instances" } |->
        CASE label = "Zonal Enablement" -> "Habilitação Zonal"
          [] label = "Region Enablement" -> "Habilitação Regional"
          [] label = "Region Enablement & Quota Increase" -> "Habilitação Regional & Aumento de Cota"
          [] label = "Quota Increase" -> "Aumento de Cota"
          [] label = "Quota Decrease" -> "Diminuição de Cota"
          [] label = "Region Limit Increase" -> "Aumento de Limite Regional"
          [] label = "Reserved Instances" -> "Instâncias Reservadas" ]

(***************************************************************************)
(* utils/parser.ts                                                         *)
(***************************************************************************)

ErrEmptyInput      == "Input data cannot be empty."
ErrInsufficient    == "Input must contain a header row and at least one data row."
ErrMissingId       == "Missing required header column: \"ID\" or \"RDQuota\""
ErrMissingSubId    == "Missing required header column: \"Subscription ID\""
ErrMissingRegion   == "Missing required header column: \"Region\""
ErrNoValidRows     == "No valid data rows could be processed. Please check your input."
NoError            == ""

\* line.replace(/^Title:\s*/i, ''): the prefix and the white space after it.
RECURSIVE dropLeadingSpace(_)
dropLeadingSpace(s) ==
    IF s # EMPTY /\ IsSpace(s[1]) THEN dropLeadingSpace(Tail(s)) ELSE s

stripTitlePrefix(line) ==
    IF line # EMPTY /\ lowerWord(line[1]) = "title:"
    THEN dropLeadingSpace(Tail(line))
    ELSE line

cleanAzureDevOpsHeader(text) ==
    IF text = EMPTY THEN EMPTY
    ELSE LET lines == split(text, NL)
             cleanedLines == [ i \in 1..Len(lines) |-> trim(stripTitlePrefix(lines[i])) ]
         IN  join(cleanedLines, NL)

\* Math.min(lines.length, 20)
ScanLimit == 20

MaxOver(S) == IF S = {} THEN 0 ELSE Max(S)

detectSeparator_AllLines(lines) ==
    LET maxCommas == MaxOver({ countChar(lines[i], COMMA) : i \in 1..Len(lines) })
        maxTabs == MaxOver({ countChar(lines[i], TAB) : i \in 1..Len(lines) })
        maxSemicolons == MaxOver({ countChar(lines[i], SEMI) : i \in 1..Len(lines) })
    IN  IF maxTabs >= maxCommas /\ maxTabs >= maxSemicolons /\ maxTabs > 0 THEN TAB
        ELSE IF maxCommas >= maxSemicolons /\ maxCommas > 0 THEN COMMA
        ELSE IF maxSemicolons > 0 THEN SEMI
        ELSE TAB

detectSeparator(lines) ==
    LET scanLimit == IF Len(lines) < ScanLimit THEN Len(lines) ELSE ScanLimit
        maxCommas == MaxOver({ countChar(lines[i], COMMA) : i \in 1..scanLimit })
        maxTabs == MaxOver({ countChar(lines[i], TAB) : i \in 1..scanLimit })
        maxSemicolons == MaxOver({ countChar(lines[i], SEMI) : i \in 1..scanLimit })
    IN  IF maxTabs >= maxCommas /\ maxTabs >= maxSemicolons /\ maxTabs > 0 THEN TAB
        ELSE IF maxCommas >= maxSemicolons /\ maxCommas > 0 THEN COMMA
        ELSE IF maxSemicolons > 0 THEN SEMI
        ELSE TAB

\* lines.map(line => line.split(separator).map(v => v.trim().replace(/"/g, '')))
parseLine(line, separator) ==
    LET cells == split(line, separator)
    IN  [ j \in 1..Len(cells) |-> stripQuotes(trim(cells[j])) ]

parseRows(lines, separator) ==
    [ i \in 1..Len(lines) |-> parseLine(lines[i], separator) ]

\* headers.forEach((header, index) => { headerMap[header.toLowerCase()] = index; })
\* The header map with the first of the cells of one lower-cased name kept.
buildHeaderMap_FirstWins(headers) ==
    [ k \in { toLowerCase(headers[i]) : i \in 1..Len(headers) } |->
        CHOOSE n \in 0..(Len(headers) - 1) :
            /\ toLowerCase(headers[n + 1]) = k
            /\ \A m \in 0..(n - 1) : toLowerCase(headers[m + 1]) # k ]

\* Column indices are the code's, counted from 0; a later cell with the same
\* lower-cased name overwrites an earlier one.
buildHeaderMap(headers) ==
    [ k \in { toLowerCase(headers[i]) : i \in 1..Len(headers) } |->
        Max({ i \in 1..Len(headers) : toLowerCase(headers[i]) = k }) - 1 ]

RECURSIVE findColIndex(_, _)
findColIndex(headerMap, possibleNames) ==
    IF possibleNames = << >> THEN -1
    ELSE LET lowerName == toLowerCase(W(Head(possibleNames)))
         IN  IF lowerName \in DOMAIN headerMap THEN headerMap[lowerName]
             ELSE findColIndex(headerMap, Tail(possibleNames))

IdAliases == << "ID", "RDQuota", "id", "rdquota", "QuotaId" >>

Found(i, hs) == [ ok |-> TRUE, headerIndex |-> i, headers |-> hs, error |-> NoError ]
Thrown(msg)  == [ ok |-> FALSE, headerIndex |-> -1, headers |-> << >>, error |-> msg ]

legacyHeaderDetection(rows) ==
    IF Len(rows) = 0 THEN Thrown(ErrEmptyInput)
    ELSE LET headers == rows[1]
             idIndex == findColIndex(buildHeaderMap(headers), IdAliases)
         IN  IF idIndex = -1 THEN Thrown(ErrMissingId) ELSE Found(0, headers)

\* The test of the primary strategy with "id" the only name it knows.
hasId_IdOnly(row) ==
    \E j \in 1..Len(row) : trim(toLowerCase(row[j])) = W("id")

hasId(row) ==
    \E j \in 1..Len(row) :
        LET val == trim(toLowerCase(row[j]))
        IN  val = W("id") \/ val = W("rdquota") \/ val = W("quotaid")

robustHeaderDetection_LastMatch(rows) ==
    LET hits == { i \in 1..Len(rows) : hasId(rows[i]) }
    IN  IF hits = {} THEN Thrown(ErrMissingId)
        ELSE Found(Max(hits) - 1, rows[Max(hits)])

robustHeaderDetection(rows) ==
    LET hits == { i \in 1..Len(rows) : hasId(rows[i]) }
    IN  IF hits = {} THEN Thrown(ErrMissingId)
        ELSE Found(Min(hits) - 1, rows[Min(hits)])


\* values[idx]?.trim() || '' for a column index counted from 0; a row shorter
\* than the header reads as undefined, hence as ''.
cellAt(values, idx) ==
    IF idx # -1 /\ idx + 1 \in 1..Len(values) THEN trim(values[idx + 1]) ELSE EMPTY

\* a || b on strings
orElse(a, b) == IF a = EMPTY THEN b ELSE a

mapDisplayTypeToCode_EnglishOnly(displayType) ==
    LET normalized == trim(toLowerCase(displayType))
    IN  CASE normalized = W("zonal enablement") -> "ZONAL_ENABLEMENT"
          [] normalized = W("region enablement") -> "REGIONAL_ENABLEMENT"
          [] normalized = W("region enablement & quota increase") -> "REGION_ENABLEMENT_QUOTA_INCREASE"
          [] normalized = W("quota increase") -> "QUOTA_INCREASE"
          [] normalized = W("quota decrease") -> "QUOTA_DECREASE"
          [] normalized = W("region limit increase") -> "REGION_LIMIT_INCREASE"
          [] normalized = W("reserved instances") -> "RESERVED_INSTANCES"
          [] OTHER -> "UNKNOWN"

mapDisplayTypeToCode(displayType) ==
    LET normalized == trim(toLowerCase(displayType))
    IN  CASE normalized = W("zonal enablement") -> "ZONAL_ENABLEMENT"
          [] normalized = W("region enablement") -> "REGIONAL_ENABLEMENT"
          [] normalized = W("region enablement & quota increase") -> "REGION_ENABLEMENT_QUOTA_INCREASE"
          [] normalized = W("quota increase") -> "QUOTA_INCREASE"
          [] normalized = W("quota decrease") -> "QUOTA_DECREASE"
          [] normalized = W("region limit increase") -> "REGION_LIMIT_INCREASE"
          [] normalized = W("reserved instances") -> "RESERVED_INSTANCES"
          [] normalized = W("habilitação zonal") -> "ZONAL_ENABLEMENT"
          [] normalized = W("habilitação regional") -> "REGIONAL_ENABLEMENT"
          [] normalized = W("habilitação regional & aumento de cota") -> "REGION_ENABLEMENT_QUOTA_INCREASE"
          [] normalized = W("aumento de cota") -> "QUOTA_INCREASE"
          [] normalized = W("diminuição de cota") -> "QUOTA_DECREASE"
          [] normalized = W("aumento de limite regional") -> "REGION_LIMIT_INCREASE"
          [] normalized = W("instâncias reservadas") -> "RESERVED_INSTANCES"
          [] OTHER -> "UNKNOWN"

criticalFinalHeaders == << "Subscription ID", "Request Type", "VM Type", "Region" >>

isAlreadyTransformed_Some(headerMap) ==
    \E k \in 1..Len(criticalFinalHeaders) :
        findColIndex(headerMap, << criticalFinalHeaders[k] >>) # -1

isAlreadyTransformed(headerMap) ==
    \A k \in 1..Len(criticalFinalHeaders) :
        findColIndex(headerMap, << criticalFinalHeaders[k] >>) # -1

\* ---- canonical-input branch ----

getVal(headerMap, values, colName) ==
    cellAt(values, findColIndex(headerMap, << colName >>))

canonicalStatus(status) ==
    IF status = W("Verification Successful") THEN W("Approved")
    ELSE IF status = W("Abandoned") THEN W("Backlogged")
    ELSE IF status = W("-") THEN W("Pending Customer Response")
    ELSE IF status = W("Fulfillment Actions Completed") THEN W("Fulfilled")
    ELSE status

canonicalZone(headerMap, values) == orElse(getVal(headerMap, values, "Zone"), W("N/A"))

canonicalCores(headerMap, values) == getVal(headerMap, values, "Cores")

canonicalOriginalId(headerMap, values, index) ==
    orElse(cellAt(values, findColIndex(headerMap, << "Original ID", "ID", "RDQuota" >>)),
           << "pre-transformed-", ToString(index) >>)

\* The callback of dataRows.map in the canonical-input branch; index counts
\* the data rows from 0.
canonicalRow(headerMap, values, index) ==
    LET status == canonicalStatus(getVal(headerMap, values, "Status"))
        requestType == orElse(getVal(headerMap, values, "Request Type"), W("Unknown"))
    IN  [ SubscriptionID  |-> getVal(headerMap, values, "Subscription ID"),
          RequestType     |-> requestType,
          VMType          |-> getVal(headerMap, values, "VM Type"),
          Region          |-> cleanRegion(getVal(headerMap, values, "Region")),
          Zone            |-> canonicalZone(headerMap, values),
          Cores           |-> canonicalCores(headerMap, values),
          Status          |-> orElse(status, W("Pending")),
          OriginalID      |-> canonicalOriginalId(headerMap, values, index),
          requestTypeCode |-> mapDisplayTypeToCode(requestType) ]

hasData_SubscriptionOnly(row) == row.SubscriptionID # EMPTY

hasData(row) ==
    row.SubscriptionID # EMPTY \/ row.VMType # EMPTY \/ row.Region # EMPTY

\* ---- raw-export branch ----

rawColumns(headerMap) ==
    [ idIndex          |-> findColIndex(headerMap, IdAliases),
      subIdIndex       |-> findColIndex(headerMap, << "Subscription ID", "SubscriptionId", "subscription id" >>),
      regionIndex      |-> findColIndex(headerMap, << "Region", "Location", "region" >>),
      ticketIndex      |-> findColIndex(headerMap, << "UTC Ticket", "Ticket", "Request Type", "Type" >>),
      constraintsIndex |-> findColIndex(headerMap, << "Deployment Constraints", "Zone", "Zones" >>),
      eventIdIndex     |-> findColIndex(headerMap, << "Event ID", "Cores", "Core Count" >>),
      reasonIndex      |-> findColIndex(headerMap, << "Reason", "Status", "State" >>),
      skuIndex         |-> findColIndex(headerMap, << "SKU", "VM Type", "VmSize" >>) ]

\* The throws that precede the map of the raw-export branch.
rawColumnsError(cols) ==
    IF cols.idIndex = -1 THEN ErrMissingId
    ELSE IF cols.subIdIndex = -1 THEN ErrMissingSubId
    ELSE IF cols.regionIndex = -1 THEN ErrMissingRegion
    ELSE NoError

rawCores_MinusOneFirst(originalRequestType, cores) ==
    IF cores = W("-1") THEN EMPTY
    ELSE IF originalRequestType = W("AZ Enablement/Whitelisting") THEN W("N/A")
    ELSE cores

rawCores_MinusOneAsNA(originalRequestType, cores) ==
    IF originalRequestType = W("AZ Enablement/Whitelisting") THEN W("N/A")
    ELSE IF cores = W("-1") THEN W("N/A")
    ELSE cores

rawCores_KeepMinusOne(originalRequestType, cores) ==
    IF originalRequestType = W("AZ Enablement/Whitelisting") THEN W("N/A")
    ELSE cores

rawCores(originalRequestType, cores) ==
    IF originalRequestType = W("AZ Enablement/Whitelisting") THEN W("N/A")
    ELSE IF cores = W("-1") THEN EMPTY
    ELSE cores

rawZone_NoDefault(zone) == zone

rawZone(zone) == IF zone = EMPTY THEN W("N/A") ELSE zone

\* let finalRequestType = originalRequestType || 'Unknown', then the switch
finalRequestType(originalRequestType) ==
    CASE originalRequestType = W("AZ Enablement/Whitelisting") -> W("Zonal Enablement")
      [] originalRequestType = W("Region Enablement/Whitelisting") -> W("Region Enablement")
      [] originalRequestType = W("Whitelisting/Quota Increase") -> W("Region Enablement & Quota Increase")
      [] originalRequestType = W("Quota Increase") -> W("Quota Increase")
      [] originalRequestType = W("Quota Decrease") -> W("Quota Decrease")
      [] originalRequestType = W("Region Limit Increase") -> W("Region Limit Increase")
      [] originalRequestType = W("RI Enablement/Whitelisting") -> W("Reserved Instances")
      [] OTHER -> orElse(originalRequestType, W("Unknown"))

rawRequestTypeCode(originalRequestType) ==
    CASE originalRequestType = W("AZ Enablement/Whitelisting") -> "ZONAL_ENABLEMENT"
      [] originalRequestType = W("Region Enablement/Whitelisting") -> "REGIONAL_ENABLEMENT"
      [] originalRequestType = W("Whitelisting/Quota Increase") -> "REGION_ENABLEMENT_QUOTA_INCREASE"
      [] originalRequestType = W("Quota Increase") -> "QUOTA_INCREASE"
      [] originalRequestType = W("Quota Decrease") -> "QUOTA_DECREASE"
      [] originalRequestType = W("Region Limit Increase") -> "REGION_LIMIT_INCREASE"
      [] originalRequestType = W("RI Enablement/Whitelisting") -> "RESERVED_INSTANCES"
      [] OTHER -> "UNKNOWN"

rawStatus_EmptyAsPending(status) ==
    IF status = W("Fulfillment Actions Completed") THEN W("Fulfilled")
    ELSE IF status = W("Verification Successful") THEN W("Approved")
    ELSE IF status = W("Abandoned") THEN W("Backlogged")
    ELSE IF status = W("-") THEN W("Pending Customer Response")
    ELSE orElse(status, W("Pending"))

rawStatus(status) ==
    IF status = W("Fulfillment Actions Completed") THEN W("Fulfilled")
    ELSE IF status = W("Verification Successful") THEN W("Approved")
    ELSE IF status = W("Abandoned") THEN W("Backlogged")
    ELSE IF status = W("-") THEN W("Pending Customer Response")
    ELSE status

\* The callback of dataRows.map in the raw-export branch.
rawRow(cols, values) ==
    LET originalRequestType == cellAt(values, cols.ticketIndex)
    IN  [ SubscriptionID  |-> cellAt(values, cols.subIdIndex),
          RequestType     |-> finalRequestType(originalRequestType),
          VMType          |-> cleanVmType(cellAt(values, cols.skuIndex)),
          Region          |-> cleanRegion(cellAt(values, cols.regionIndex)),
          Zone            |-> rawZone(cellAt(values, cols.constraintsIndex)),
          Cores           |-> rawCores(originalRequestType, cellAt(values, cols.eventIdIndex)),
          Status          |-> rawStatus(cellAt(values, cols.reasonIndex)),
          OriginalID      |-> cellAt(values, cols.idIndex),
          requestTypeCode |-> rawRequestTypeCode(originalRequestType) ]

\* The predicate of the raw-export branch's filter: TRUE keeps the row.
rawKeep(row) ==
    LET isZoneNA == row.Zone = W("N/A")
        isRowEffectivelyEmpty ==
            /\ row.SubscriptionID = EMPTY
            /\ row.VMType = EMPTY
            /\ row.Region = EMPTY
            /\ row.RequestType = EMPTY
    IN  ~(isZoneNA /\ isRowEffectivelyEmpty)

\* ---- grouping ----

groupByRequestType_Reversed(rows) ==
    [ category \in { rows[i].RequestType : i \in 1..Len(rows) } |->
        LET group == SelectSeq(rows, LAMBDA r : r.RequestType = category)
        IN  [ k \in 1..Len(group) |-> group[Len(group) + 1 - k] ] ]

groupByRequestType(rows) ==
    [ category \in { rows[i].RequestType : i \in 1..Len(rows) } |->
        SelectSeq(rows, LAMBDA r : r.RequestType = category) ]


USE_ROBUST_HEADER_DETECTION == TRUE

(***************************************************************************)
(* components/CopyButton.tsx: the table as tab-separated text              *)
(***************************************************************************)

\* cleanValue on a string
cleanValue(val) == trim(val)

\* row[h] for a header of finalHeaders
field(row, h) ==
    CASE h = "Subscription ID" -> row.SubscriptionID
      [] h = "Request Type"    -> row.RequestType
      [] h = "VM Type"         -> row.VMType
      [] h = "Region"          -> row.Region
      [] h = "Zone"            -> row.Zone
      [] h = "Cores"           -> row.Cores
      [] h = "Status"          -> row.Status

generateTsvContent(headers, data) ==
    LET headerRow == join([ j \in 1..Len(headers) |-> W(headers[j]) ], TAB)
        dataRows ==
            join([ i \in 1..Len(data) |->
                     join([ j \in 1..Len(headers) |-> cleanValue(field(data[i], headers[j])) ], TAB) ],
                 NL)
    IN  headerRow \o << NL >> \o dataRows

(***************************************************************************)
(* Inputs                                                                  *)
(*                                                                         *)
(* An input is a table written out as text: banner lines, a header line    *)
(* and data lines, the cells of a line joined by one separator character.  *)
(* A column is a header cell and the field of the request it carries.      *)
(***************************************************************************)

MaxBanner   == 2
MaxDataRows == 2

Col(text, fld) == [ text |-> text, fld |-> fld ]

RawLayout ==
    << Col(W("ID"), "id"), Col(W("Subscription ID"), "sub"), Col(W("UTC Ticket"), "ticket"),
       Col(W("SKU"), "sku"), Col(W("Region"), "region"),
       Col(W("Deployment Constraints"), "zone"), Col(W("Event ID"), "cores"),
       Col(W("Reason"), "status") >>

\* The output header set, as the README gives it.
CanonLayout ==
    << Col(W("Subscription ID"), "sub"), Col(W("Request Type"), "ticket"),
       Col(W("VM Type"), "sku"), Col(W("Region"), "region"), Col(W("Zone"), "zone"),
       Col(W("Cores"), "cores"), Col(W("Status"), "status") >>

\* The output header set with the ticket id kept as a last column.
CanonIdLayout == CanonLayout \o << Col(W("ID"), "id") >>

AliasLayout ==
    << Col(W("SubscriptionId"), "sub"), Col(W("Location"), "region"), Col(W("Ticket"), "ticket"),
       Col(W("VmSize"), "sku"), Col(W("Zones"), "zone"), Col(W("Core Count"), "cores"),
       Col(W("State"), "status"), Col(W("RDQuota"), "id") >>

LowerLayout ==
    << Col(W("subscription id"), "sub"), Col(W("region"), "region"), Col(W("type"), "ticket"),
       Col(W("quotaid"), "id") >>

\* Header cells written with quotes and white space inside the quotes.
QuotedLayout ==
    << Col(<< QUOTE, "Subscription ID", QUOTE >>, "sub"), Col(<< QUOTE, "Region", QUOTE >>, "region"),
       Col(<< QUOTE, "UTC Ticket", QUOTE >>, "ticket"), Col(<< QUOTE, SP, "ID", SP, QUOTE >>, "id") >>

\* A quoted export that lacks the Subscription ID column.
QuotedNoSubLayout ==
    << Col(<< QUOTE, "Region", QUOTE >>, "region"), Col(<< QUOTE, "UTC Ticket", QUOTE >>, "ticket"),
       Col(<< QUOTE, SP, "ID", SP, QUOTE >>, "id") >>

NoIdLayout ==
    << Col(W("Subscription ID"), "sub"), Col(W("UTC Ticket"), "ticket"), Col(W("Region"), "region"),
       Col(W("Reason"), "status") >>

NoSubLayout ==
    << Col(W("Region"), "region"), Col(W("UTC Ticket"), "ticket"), Col(W("Event ID"), "cores"),
       Col(W("ID"), "id") >>

NoRegionLayout ==
    << Col(W("Subscription ID"), "sub"), Col(W("UTC Ticket"), "ticket"), Col(W("SKU"), "sku"),
       Col(W("ID"), "id") >>

\* Three of the four canonical names: a raw export that names its ticket column
\* "Request Type".
MixedLayout ==
    << Col(W("Subscription ID"), "sub"), Col(W("Request Type"), "ticket"), Col(W("Region"), "region"),
       Col(W("Zone"), "zone"), Col(W("Cores"), "cores"), Col(W("Status"), "status"),
       Col(W("ID"), "id") >>

\* An export with a "Type" column before its "UTC Ticket" column and two
\* columns named region, in two letter cases.
DuplicateLayout ==
    << Col(W("ID"), "id"), Col(W("Type"), "sku"), Col(W("Subscription ID"), "sub"),
       Col(W("region"), "status"), Col(W("UTC Ticket"), "ticket"), Col(W("Region"), "region") >>

HeaderLayouts ==
    { RawLayout, CanonLayout, CanonIdLayout, AliasLayout, LowerLayout, QuotedLayout,
      QuotedNoSubLayout, NoIdLayout, NoSubLayout, NoRegionLayout, MixedLayout,
      DuplicateLayout }

Request(id, sub, ticket, sku, region, zone, cores, status) ==
    [ id |-> id, sub |-> sub, ticket |-> ticket, sku |-> sku, region |-> region,
      zone |-> zone, cores |-> cores, status |-> status ]

TicketValues ==
    { EMPTY, W("AZ Enablement/Whitelisting"), W("Quota Increase"), W("Zonal Enablement"),
      W("Capacity Review") }

StatusValues ==
    { EMPTY, W("Fulfillment Actions Completed"), W("Verification Successful"), W("Abandoned"),
      W("-"), W("In Review") }

CoresValues == { EMPTY, W("-1"), W("8"), W("N/A") }

ZoneValues == { EMPTY, W("1"), << QUOTE, SP, QUOTE >> }

\* One request with its identifying fields present or absent; the id "ID" is
\* a header line repeated among the data lines.
SparseRequests ==
    [ id : { EMPTY, W("101"), W("ID") }, sub : { EMPTY, W("sub-1") }, ticket : TicketValues,
      sku : { EMPTY, W("D2") }, region : { EMPTY, W("eastus") }, zone : ZoneValues,
      cores : { W("8") }, status : { W("In Review") } ]

\* One identified request with every vocabulary of ticket, cores and status.
VocabularyRequests ==
    [ id : { W("101") }, sub : { W("sub-1") }, ticket : TicketValues,
      sku : { W("D2") }, region : { W("eastus") }, zone : { EMPTY, W("1") },
      cores : CoresValues, status : StatusValues ]

SampleRequests ==
    { Request(W("101"), W("sub-1"), W("AZ Enablement/Whitelisting"), W("D2"), W("eastus"),
              W("1"), W("4"), W("Abandoned")),
      Request(W("102"), W("sub-2"), W("Quota Increase"), W("D4"), W("westus"),
              EMPTY, W("-1"), W("-")),
      Request(W("103"), EMPTY, EMPTY, EMPTY, EMPTY, EMPTY, EMPTY, EMPTY) }

\* One identified request for every case label of the rename switch, and one
\* written in another letter case.
RenameRequests ==
    [ id : { W("101") }, sub : { W("sub-1") },
      ticket : { W("AZ Enablement/Whitelisting"), W("Region Enablement/Whitelisting"),
                 W("Whitelisting/Quota Increase"), W("Quota Increase"), W("Quota Decrease"),
                 W("Region Limit Increase"), W("RI Enablement/Whitelisting"),
                 W("quota increase") },
      sku : { W("D2") }, region : { W("eastus") }, zone : { W("1") },
      cores : { W("8"), W("-1") }, status : { W("In Review") } ]

\* Three requests of two request types.
GroupRequests ==
    { Request(W("101"), W("sub-1"), W("AZ Enablement/Whitelisting"), W("D2"), W("eastus"),
              W("1"), W("4"), W("Abandoned")),
      Request(W("102"), W("sub-2"), W("Quota Increase"), W("D4"), W("westus"),
              EMPTY, W("-1"), W("-")),
      Request(W("104"), W("sub-4"), W("Quota Increase"), W("D2"), W("eastus"),
              EMPTY, W("8"), W("In Review")) }

\* Two requests of one export, one with the ticket text of the rename switch
\* and one with the label the switch gives it.
MixedVocabularyRequests ==
    { Request(W("101"), W("sub-1"), W("AZ Enablement/Whitelisting"), W("D2"), W("eastus"),
              W("1"), W("4"), W("Abandoned")),
      Request(W("105"), W("sub-5"), W("Zonal Enablement"), W("D4"), W("westus"),
              W("2"), W("16"), W("In Review")) }

RECURSIVE SeqsUpTo(_, _)
SeqsUpTo(S, n) ==
    IF n = 0 THEN { << >> }
    ELSE LET shorter == SeqsUpTo(S, n - 1)
         IN  shorter \cup { Append(q, x) : q \in { t \in shorter : Len(t) = n - 1 }, x \in S }

bannerLine(k) == IF k = 1 THEN << "Title:", SP, "Quota Report" >> ELSE W("Exported by ops")

tableText(banners, layout, requests, sep) ==
    LET headerLine == join([ j \in 1..Len(layout) |-> layout[j].text ], sep)
        dataLine(r) == join([ j \in 1..Len(layout) |-> r[layout[j].fld] ], sep)
    IN  join([ k \in 1..banners |-> bannerLine(k) ]
             \o << headerLine >>
             \o [ i \in 1..Len(requests) |-> dataLine(requests[i]) ],
             NL)

\* A header line with no data line after it, with or without banner lines
\* above it and a line end after it.
HeaderOnlyInputs ==
    { tableText(b, layout, << >>, sep) \o lineEnd :
        b \in 0..MaxBanner,
        layout \in HeaderLayouts,
        sep \in { TAB, COMMA },
        lineEnd \in { EMPTY, << NL >> } }

\* Nothing but white space.
BlankInputs == { EMPTY, << SP >>, << NL, SP, NL >> }

Inputs ==
    HeaderOnlyInputs
    \cup
    BlankInputs
    \cup
    { tableText(0, RawLayout, << r >>, TAB) : r \in RenameRequests }
    \cup
    { tableText(0, RawLayout, << r1, r2, r3 >>, TAB) : r1, r2, r3 \in GroupRequests }
    \cup
    { tableText(0, layout, << r1, r2 >>, TAB) :
        layout \in { RawLayout, CanonIdLayout }, r1, r2 \in MixedVocabularyRequests }
    \cup
    { tableText(0, layout, << r >>, sep) :
        layout \in { RawLayout, CanonIdLayout },
        r \in SparseRequests \cup VocabularyRequests,
        sep \in { TAB, COMMA } }
    \cup
    { tableText(b, layout, rs, sep) :
        b \in 0..MaxBanner,
        layout \in HeaderLayouts,
        rs \in SeqsUpTo(SampleRequests, MaxDataRows) \ { << >> },
        sep \in { TAB, COMMA } }

(***************************************************************************)
(* App (the single-file application): its own helpers and the transform    *)
(* that handleTransform carries inline                                     *)
(***************************************************************************)

\* The banner line of an Azure DevOps export, one word of the input.
AzureBanner ==
    "Project: Quota Server: https://dev.azure.com/capacityrequest Query: [None] List type: Flat"

\* firstLine.startsWith("Project: Quota") && firstLine.includes(...) three
\* times: of the words the inputs use, AzureBanner alone has these texts.
isAzureHeader(firstLine) == firstLine # EMPTY /\ firstLine[1] = AzureBanner

appCleanAzureDevOpsHeader(text) ==
    IF text = EMPTY THEN text
    ELSE LET lines == split(text, NL)
         IN  IF isAzureHeader(trim(lines[1])) THEN join(Tail(lines), NL) ELSE text

\* A word that matches \([A-Z]+\).
isUpperParen(w) == w \in { "(US)", "(EU)", "(XIO)" }

\* region.replace(/\s\([A-Z]+\)/g, '')
RECURSIVE dropRegionMarkers(_)
dropRegionMarkers(s) ==
    IF Len(s) < 2 THEN s
    ELSE IF IsSpace(s[1]) /\ isUpperParen(s[2]) THEN dropRegionMarkers(SubSeq(s, 3, Len(s)))
    ELSE << s[1] >> \o dropRegionMarkers(Tail(s))

appCleanRegion(region) ==
    IF region = EMPTY THEN region ELSE trim(dropRegionMarkers(region))

\* vmType.replace(/\s*\(XIO\)/gi, ''): the marker with the white space before it.
RECURSIVE dropXioMarkers(_)
dropXioMarkers(s) ==
    IF s = EMPTY THEN EMPTY
    ELSE LET solid == { i \in 1..Len(s) : ~IsSpace(s[i]) }
             next == IF solid = {} THEN Len(s) + 1 ELSE Min(solid)
         IN  IF next <= Len(s) /\ lowerWord(s[next]) = "(xio)"
             THEN dropXioMarkers(SubSeq(s, next + 1, Len(s)))
             ELSE SubSeq(s, 1, Min({ next, Len(s) })) \o dropXioMarkers(SubSeq(s, next + 1, Len(s)))

cleanVMType(vmType) ==
    IF vmType = EMPTY THEN vmType ELSE trim(dropXioMarkers(vmType))

\* The separator /\s+/
WHITESPACE == "\\s+"

\* let separator, from the counts of the header line
appSeparator(headerLine) ==
    LET tabCount == countChar(headerLine, TAB)
        commaCount == countChar(headerLine, COMMA)
    IN  IF tabCount > commaCount /\ tabCount > 0 THEN TAB
        ELSE IF commaCount > 0 THEN COMMA
        ELSE WHITESPACE

\* The words of the inputs that have a space inside, letter by letter as far
\* as /\s+/ sees them.
wordParts(w) ==
    CASE w = "Quota Report" -> << "Quota", SP, "Report" >>
      [] w = "Exported by ops" -> << "Exported", SP, "by", SP, "ops" >>
      [] w = "Subscription ID" -> << "Subscription", SP, "ID" >>
      [] w = "UTC Ticket" -> << "UTC", SP, "Ticket" >>
      [] w = "Deployment Constraints" -> << "Deployment", SP, "Constraints" >>
      [] w = "Event ID" -> << "Event", SP, "ID" >>
      [] w = "Request Type" -> << "Request", SP, "Type" >>
      [] w = "VM Type" -> << "VM", SP, "Type" >>
      [] w = "AZ Enablement/Whitelisting" -> << "AZ", SP, "Enablement/Whitelisting" >>
      [] w = "Quota Increase" -> << "Quota", SP, "Increase" >>
      [] w = "In Review" -> << "In", SP, "Review" >>
      [] OTHER -> << w >>

RECURSIVE spellOut(_)
spellOut(s) == IF s = EMPTY THEN EMPTY ELSE wordParts(s[1]) \o spellOut(Tail(s))

\* String.prototype.split(/\s+/) of a string spelled out
RECURSIVE splitRuns(_)
splitRuns(s) ==
    LET at == { i \in 1..Len(s) : IsSpace(s[i]) }
    IN  IF at = {} THEN << s >>
        ELSE LET after == { i \in (Min(at) + 1)..Len(s) : ~IsSpace(s[i]) }
                 rest == IF after = {} THEN EMPTY ELSE SubSeq(s, Min(after), Len(s))
             IN  << SubSeq(s, 1, Min(at) - 1) >> \o splitRuns(rest)

\* line.split(separator).map(v => v.trim().replace(/"/g, ''))
appParseLine(line, separator) ==
    LET cells == IF separator = WHITESPACE THEN splitRuns(spellOut(line))
                 ELSE split(line, separator)
    IN  [ j \in 1..Len(cells) |-> stripQuotes(trim(cells[j])) ]

\* headers.forEach((header, index) => { headerMap[header] = index; })
appHeaderMap(headers) ==
    [ k \in { headers[i] : i \in 1..Len(headers) } |->
        Max({ i \in 1..Len(headers) : headers[i] = k }) - 1 ]

\* finalHeaders.every(h => headers.includes(h))
appIsAlreadyTransformed(headers) ==
    \A k \in 1..Len(finalHeaders) : \E j \in 1..Len(headers) : headers[j] = W(finalHeaders[k])

\* values[headerMap[col]]?.trim() || ''
appGet(headerMap, values, col) ==
    IF W(col) \in DOMAIN headerMap /\ headerMap[W(col)] + 1 \in 1..Len(values)
    THEN trim(values[headerMap[W(col)] + 1])
    ELSE EMPTY

appCanonicalStatus(status) ==
    IF status = W("Verification Successful") THEN W("Approved")
    ELSE IF status = W("Abandoned") THEN W("Backlogged")
    ELSE IF status = W("-") THEN W("Pending Customer Response")
    ELSE status

appCanonicalRow(headerMap, values, index) ==
    [ SubscriptionID |-> appGet(headerMap, values, "Subscription ID"),
      RequestType    |-> appGet(headerMap, values, "Request Type"),
      VMType         |-> cleanVMType(appGet(headerMap, values, "VM Type")),
      Region         |-> appCleanRegion(appGet(headerMap, values, "Region")),
      Zone           |-> appGet(headerMap, values, "Zone"),
      Cores          |-> appGet(headerMap, values, "Cores"),
      Status         |-> appCanonicalStatus(appGet(headerMap, values, "Status")),
      OriginalID     |-> << "pre-transformed-", ToString(index) >> ]

requiredOriginalHeaders ==
    << "UTC Ticket", "Deployment Constraints", "Event ID", "Reason", "Subscription ID", "SKU",
       "Region" >>

missingHeaders(headerMap) ==
    SelectSeq(requiredOriginalHeaders, LAMBDA h : W(h) \notin DOMAIN headerMap)

appCores(originalRequestType, cores) ==
    IF originalRequestType = W("AZ Enablement/Whitelisting") THEN W("N/A")
    ELSE IF cores = W("-1") THEN EMPTY
    ELSE cores

appFinalRequestType(originalRequestType) ==
    CASE originalRequestType = W("AZ Enablement/Whitelisting") -> W("Zonal Enablement")
      [] originalRequestType = W("Region Enablement/Whitelisting") -> W("Region Enablement")
      [] originalRequestType = W("Whitelisting/Quota Increase") -> W("Region Enablement & Quota Increase")
      [] originalRequestType = W("Quota Increase") -> W("Quota Increase")
      [] originalRequestType = W("Region Limit Increase") -> W("Region Limit Increase")
      [] originalRequestType = W("RI Enablement/Whitelisting") -> W("Reserved Instances")
      [] OTHER -> originalRequestType

appStatus(status) ==
    IF status = W("Fulfillment Actions Completed") THEN W("Fulfilled")
    ELSE IF status = W("Verification Successful") THEN W("Approved")
    ELSE IF status = W("Abandoned") THEN W("Backlogged")
    ELSE IF status = W("-") THEN W("Pending Customer Response")
    ELSE status

appRawRow(headerMap, values) ==
    LET originalRequestType == appGet(headerMap, values, "UTC Ticket")
    IN  [ SubscriptionID |-> appGet(headerMap, values, "Subscription ID"),
          RequestType    |-> appFinalRequestType(originalRequestType),
          VMType         |-> cleanVMType(appGet(headerMap, values, "SKU")),
          Region         |-> appCleanRegion(appGet(headerMap, values, "Region")),
          Zone           |-> orElse(appGet(headerMap, values, "Deployment Constraints"), W("N/A")),
          Cores          |-> appCores(originalRequestType, appGet(headerMap, values, "Event ID")),
          Status         |-> appStatus(appGet(headerMap, values, "Reason")),
          OriginalID     |-> orElse(appGet(headerMap, values, "RDQuota"),
                                    appGet(headerMap, values, "ID")) ]

\* The predicate of the filter: TRUE keeps the row.
appKeep(row) ==
    LET isZoneNA == row.Zone = W("N/A")
        isRowEffectivelyEmpty ==
            /\ row.SubscriptionID = EMPTY
            /\ row.VMType = EMPTY
            /\ row.Region = EMPTY
            /\ row.RequestType = EMPTY
    IN  ~(isZoneNA /\ isRowEffectivelyEmpty)

appGroups(rows) ==
    [ category \in { rows[i].RequestType : i \in 1..Len(rows) } |->
        SelectSeq(rows, LAMBDA r : r.RequestType = category) ]

\* A value that may be null: null, or the value.
Null == << >>
Some(x) == << x >>

\* What one run of handleTransform sets after its four resets: the error, or
\* the two results.
SetError(msg) == [ error |-> Some(msg), transformedData |-> Null, categorizedData |-> Null ]

SetResults(processedRows) ==
    [ error |-> Null, transformedData |-> Some(processedRows),
      categorizedData |-> Some(appGroups(processedRows)) ]

\* catch (e): setError(`Transformation Failed: ${e.message}`)
Caught(message) == SetError(<< "Transformation Failed: " >> \o message)

\* The end of handleTransform without the return after its last setError:
\* the error and the results are both set.
Conclude_NoReturn(processedRows) ==
    IF Len(processedRows) = 0
    THEN [ error |-> Some(W(ErrNoValidRows)), transformedData |-> Some(processedRows),
           categorizedData |-> Some(appGroups(processedRows)) ]
    ELSE SetResults(processedRows)

Conclude(processedRows) ==
    IF Len(processedRows) = 0 THEN SetError(W(ErrNoValidRows)) ELSE SetResults(processedRows)

handleTransformSets(text) ==
    LET cleanedInput == appCleanAzureDevOpsHeader(text)
        nonEmpty == SelectSeq(split(trim(cleanedInput), NL), LAMBDA l : trim(l) # EMPTY)
        headerLine == nonEmpty[1]
        dataLines == Tail(nonEmpty)
        separator == appSeparator(headerLine)
        headers == appParseLine(headerLine, separator)
        headerMap == appHeaderMap(headers)
        values(i) == appParseLine(dataLines[i], separator)
    IN  IF trim(cleanedInput) = EMPTY THEN SetError(W(ErrEmptyInput))
        ELSE IF Len(nonEmpty) < 2 THEN SetError(W(ErrInsufficient))
        ELSE IF appIsAlreadyTransformed(headers)
        THEN Conclude([ i \in 1..Len(dataLines) |-> appCanonicalRow(headerMap, values(i), i - 1) ])
        ELSE IF W("ID") \notin DOMAIN headerMap /\ W("RDQuota") \notin DOMAIN headerMap
        THEN Caught(W(ErrMissingId))
        ELSE IF Len(missingHeaders(headerMap)) > 0
        THEN Caught(<< "Missing required header columns: " >>
                    \o join([ k \in 1..Len(missingHeaders(headerMap)) |->
                                W(missingHeaders(headerMap)[k]) ], ", "))
        ELSE Conclude(SelectSeq([ i \in 1..Len(dataLines) |-> appRawRow(headerMap, values(i)) ],
                                appKeep))

\* What the user can type, paste or load into the input box.
AppInputs ==
    BlankInputs
    \cup { tableText(0, RawLayout, << >>, TAB) }
    \cup { tableText(0, RawLayout, rs, sep) :
             rs \in { << r >> : r \in SampleRequests } \cup { << r1, r2 >> : r1, r2 \in GroupRequests },
             sep \in { TAB, COMMA } }
    \cup { tableText(0, CanonLayout, << r >>, TAB) : r \in SampleRequests }
    \cup { tableText(0, layout, << r >>, TAB) :
             layout \in { NoIdLayout, NoRegionLayout, LowerLayout }, r \in GroupRequests }
    \cup { << AzureBanner, NL >> \o tableText(0, RawLayout, << r >>, TAB) : r \in GroupRequests }
    \cup { tableText(1, RawLayout, << r >>, TAB) : r \in GroupRequests }
    \cup { << "ID", NL, "101" >> }

(***************************************************************************)
(* transformData as a state machine: one call runs start -> header ->      *)
(* (fallback) -> shape -> canonical | raw -> group -> done, or ends in     *)
(* failed with the message thrown.                                         *)
(***************************************************************************)

VARIABLES
    rawInput,        \* the text handed to transformData
    pc,              \* where the call stands
    lines,           \* the non-empty lines of the cleaned input
    separator,
    parsedRows,
    tried,           \* the header strategies run so far, in order
    headerInfo,
    headerMap,
    dataRows,
    shape,           \* "canonical" | "raw" once decided
    mappedRows,      \* the value of dataRows.map(...), before .filter
    processedRows,
    result,          \* what the call returned
    error,           \* the message of what the call threw
    pass,            \* 1: the user's input; 2: the copied table pasted back
    firstResult,     \* the result of pass 1, kept through pass 2
    firstShape,      \* the shape pass 1 decided
    displayType,     \* the argument of a call of mapDisplayTypeToCode
    displayCode,     \* what that call returned
    sepLines,        \* the argument of a call of detectSeparator
    sepResult,       \* what that call returned
    visHeaders,      \* the headers handed to getVisibleHeaders and to CategorySection
    visCode,         \* the requestTypeCode handed to getVisibleHeaders
    sectionData,     \* the data handed to CategorySection
    visResult,       \* what getVisibleHeaders returned
    visibleHeaders,  \* what the memo of CategorySection holds
    vmValue,         \* the argument of a call of cleanVmType
    vmResult,        \* what that call returned
    mounted,         \* CopyButton: the component is mounted
    copied,          \* CopyButton: the state copied
    timeoutRef,      \* CopyButton: timeoutRef.current, 0 for null
    pendingTimers,   \* CopyButton: the timers set and neither fired nor cleared
    nextTimer,       \* CopyButton: the id the next setTimeout returns
    copyPc,          \* CopyButton: where each call of handleCopy stands
    lateSetCopied,   \* CopyButton: setCopied has been called after the unmount
    appRawInput,     \* App: the state rawInput
    categorizedData, \* App: the state categorizedData
    transformedData, \* App: the state transformedData
    appError,        \* App: the state error
    unifiedView,     \* App: the state unifiedView
    heldBefore       \* App: what was held when the handleTransform just run was entered

\* The locals of a call of transformData.
callVars == << rawInput, pc, lines, separator, parsedRows, tried, headerInfo, headerMap,
               dataRows, shape, mappedRows, processedRows, result, error, pass, firstResult,
               firstShape >>

\* The arguments and results of the functions called on their own.
unitVars == << displayType, displayCode, sepLines, sepResult,
               visHeaders, visCode, sectionData, visResult, visibleHeaders,
               vmValue, vmResult,
               mounted, copied, timeoutRef, pendingTimers, nextTimer, copyPc, lateSetCopied >>

\* The state of the component App.
appVars == << appRawInput, categorizedData, transformedData, appError, unifiedView, heldBefore >>

vars == << callVars, unitVars, appVars >>

NoTransform == [ entered |-> FALSE ]

NotCalled == "not called"

NoResult == [ returned |-> FALSE, transformed |-> << >>, categorized |-> << >> ]
NoHeader == Thrown(NoError)

MaxCopies == 3

\* CopyButton as mounted: useState(false), useRef(null), no click yet.
CopyIdle ==
    /\ mounted = TRUE
    /\ copied = FALSE
    /\ timeoutRef = 0
    /\ pendingTimers = {}
    /\ nextTimer = 1
    /\ copyPc = [ c \in 1..MaxCopies |-> "idle" ]
    /\ lateSetCopied = FALSE

\* No function is called on its own, but the one named; CopyButton is as
\* mounted.
OthersIdle(unit) ==
    /\ IF unit = "display" THEN TRUE
       ELSE displayType = EMPTY /\ displayCode = NotCalled
    /\ IF unit = "separator" THEN TRUE
       ELSE sepLines = << >> /\ sepResult = NotCalled
    /\ IF unit = "visible" THEN TRUE
       ELSE /\ visHeaders = << >>
            /\ visCode = Undefined
            /\ sectionData = << >>
            /\ visResult = Null
            /\ visibleHeaders = Null
    /\ IF unit = "cleaner" THEN TRUE
       ELSE vmValue = EMPTY /\ vmResult = Null
    /\ IF unit = "copy" THEN TRUE ELSE CopyIdle

\* A step of the unit named leaves the others as they are.
OthersUnchanged(unit) ==
    /\ IF unit = "display" THEN TRUE ELSE UNCHANGED << displayType, displayCode >>
    /\ IF unit = "separator" THEN TRUE ELSE UNCHANGED << sepLines, sepResult >>
    /\ IF unit = "visible" THEN TRUE
       ELSE UNCHANGED << visHeaders, visCode, sectionData, visResult, visibleHeaders >>
    /\ IF unit = "cleaner" THEN TRUE ELSE UNCHANGED << vmValue, vmResult >>
    /\ IF unit = "copy" THEN TRUE
       ELSE UNCHANGED << mounted, copied, timeoutRef, pendingTimers, nextTimer, copyPc,
                         lateSetCopied >>

\* No function is called on its own.
UnitsIdle == OthersIdle("none")

\* The initial state of App: the useState defaults.
AppIdle ==
    /\ appRawInput = EMPTY
    /\ categorizedData = Null
    /\ transformedData = Null
    /\ appError = Null
    /\ unifiedView = "none"
    /\ heldBefore = NoTransform

Init ==
    /\ rawInput \in Inputs
    /\ pc = "start"
    /\ lines = << >>
    /\ separator = ""
    /\ parsedRows = << >>
    /\ tried = << >>
    /\ headerInfo = NoHeader
    /\ headerMap = << >>
    /\ dataRows = << >>
    /\ shape = "undecided"
    /\ mappedRows = << >>
    /\ processedRows = << >>
    /\ result = NoResult
    /\ error = NoError
    /\ pass = 1
    /\ firstResult = NoResult
    /\ firstShape = "undecided"
    /\ UnitsIdle
    /\ AppIdle

\* throw new Error(msg)
Throw(msg) ==
    /\ pc' = "failed"
    /\ error' = msg

\* Lines 208-223: clean, split into non-empty lines, detect the separator,
\* parse every line.
Prepare ==
    /\ pc = "start"
    /\ LET cleanedInput == cleanAzureDevOpsHeader(rawInput)
           nonEmpty == SelectSeq(split(trim(cleanedInput), NL), LAMBDA l : trim(l) # EMPTY)
       IN  IF trim(cleanedInput) = EMPTY
           THEN Throw(ErrEmptyInput) /\ UNCHANGED << lines, separator, parsedRows >>
           ELSE IF Len(nonEmpty) < 2
           THEN Throw(ErrInsufficient) /\ lines' = nonEmpty /\ UNCHANGED << separator, parsedRows >>
           ELSE /\ lines' = nonEmpty
                /\ separator' = detectSeparator(nonEmpty)
                /\ parsedRows' = parseRows(nonEmpty, detectSeparator(nonEmpty))
                /\ pc' = IF USE_ROBUST_HEADER_DETECTION THEN "header" ELSE "fallback"
                /\ UNCHANGED error
    /\ UNCHANGED << rawInput, tried, headerInfo, headerMap, dataRows, shape, mappedRows,
                    processedRows, result, pass, firstResult, firstShape >>
    /\ UNCHANGED << unitVars, appVars >>

\* Lines 227-228: the try block.
LocatePrimary ==
    /\ pc = "header"
    /\ tried' = Append(tried, "primary")
    /\ LET found == robustHeaderDetection(parsedRows)
       IN  IF found.ok
           THEN headerInfo' = found /\ pc' = "shape"
           ELSE headerInfo' = headerInfo /\ pc' = "fallback"
    /\ UNCHANGED << rawInput, lines, separator, parsedRows, headerMap, dataRows, shape,
                    mappedRows, processedRows, result, error, pass, firstResult, firstShape >>
    /\ UNCHANGED << unitVars, appVars >>

\* Lines 229-232: the catch block (and line 234 with the flag off).
LocateFallback ==
    /\ pc = "fallback"
    /\ tried' = Append(tried, "fallback")
    /\ LET found == legacyHeaderDetection(parsedRows)
       IN  IF found.ok
           THEN headerInfo' = found /\ pc' = "shape" /\ UNCHANGED error
           ELSE headerInfo' = headerInfo /\ Throw(found.error)
    /\ UNCHANGED << rawInput, lines, separator, parsedRows, headerMap, dataRows, shape,
                    mappedRows, processedRows, result, pass, firstResult, firstShape >>
    /\ UNCHANGED << unitVars, appVars >>

\* Lines 237-263: the data rows, the header map and the schema shape.
DecideShape ==
    /\ pc = "shape"
    /\ dataRows' = SubSeq(parsedRows, headerInfo.headerIndex + 2, Len(parsedRows))
    /\ headerMap' = buildHeaderMap(headerInfo.headers)
    /\ shape' = IF isAlreadyTransformed(buildHeaderMap(headerInfo.headers)) THEN "canonical" ELSE "raw"
    /\ pc' = shape'
    /\ UNCHANGED << rawInput, lines, separator, parsedRows, tried, headerInfo, mappedRows,
                    processedRows, result, error, pass, firstResult, firstShape >>
    /\ UNCHANGED << unitVars, appVars >>

\* Lines 264-304.
NormalizeCanonical ==
    /\ pc = "canonical"
    /\ mappedRows' = [ i \in 1..Len(dataRows) |-> canonicalRow(headerMap, dataRows[i], i - 1) ]
    /\ processedRows' = SelectSeq(mappedRows', hasData)
    /\ pc' = "group"
    /\ UNCHANGED << rawInput, lines, separator, parsedRows, tried, headerInfo, headerMap,
                    dataRows, shape, result, error, pass, firstResult, firstShape >>
    /\ UNCHANGED << unitVars, appVars >>

\* Lines 306-405.
NormalizeRaw ==
    /\ pc = "raw"
    /\ LET cols == rawColumns(headerMap)
       IN  IF rawColumnsError(cols) # NoError
           THEN Throw(rawColumnsError(cols)) /\ UNCHANGED << mappedRows, processedRows >>
           ELSE /\ mappedRows' = [ i \in 1..Len(dataRows) |-> rawRow(cols, dataRows[i]) ]
                /\ processedRows' = SelectSeq(mappedRows', rawKeep)
                /\ pc' = "group"
                /\ UNCHANGED error
    /\ UNCHANGED << rawInput, lines, separator, parsedRows, tried, headerInfo, headerMap,
                    dataRows, shape, result, pass, firstResult, firstShape >>
    /\ UNCHANGED << unitVars, appVars >>

\* Lines 408-421.
Group ==
    /\ pc = "group"
    /\ IF Len(processedRows) = 0
       THEN Throw(ErrNoValidRows) /\ UNCHANGED result
       ELSE /\ result' = [ returned |-> TRUE, transformed |-> processedRows,
                           categorized |-> groupByRequestType(processedRows) ]
            /\ pc' = "done"
            /\ UNCHANGED error
    /\ UNCHANGED << rawInput, lines, separator, parsedRows, tried, headerInfo, headerMap,
                    dataRows, shape, mappedRows, processedRows, pass, firstResult, firstShape >>
    /\ UNCHANGED << unitVars, appVars >>

\* The user copies the unified table (finalHeaders, transformed) and pastes
\* it back as the next input.
Refeed ==
    /\ pc = "done"
    /\ pass = 1
    /\ rawInput' = generateTsvContent(finalHeaders, result.transformed)
    /\ pass' = 2
    /\ firstResult' = result
    /\ firstShape' = shape
    /\ pc' = "start"
    /\ lines' = << >>
    /\ separator' = ""
    /\ parsedRows' = << >>
    /\ tried' = << >>
    /\ headerInfo' = NoHeader
    /\ headerMap' = << >>
    /\ dataRows' = << >>
    /\ shape' = "undecided"
    /\ mappedRows' = << >>
    /\ processedRows' = << >>
    /\ result' = NoResult
    /\ error' = NoError
    /\ UNCHANGED << unitVars, appVars >>

Next ==
    \/ Prepare
    \/ LocatePrimary
    \/ LocateFallback
    \/ DecideShape
    \/ NormalizeCanonical
    \/ NormalizeRaw
    \/ Group
    \/ Refeed

Spec == Init /\ [][Next]_vars

\* transformData is not being called.
CallIdle ==
    /\ rawInput = EMPTY
    /\ pc = "idle"
    /\ lines = << >>
    /\ separator = ""
    /\ parsedRows = << >>
    /\ tried = << >>
    /\ headerInfo = NoHeader
    /\ headerMap = << >>
    /\ dataRows = << >>
    /\ shape = "undecided"
    /\ mappedRows = << >>
    /\ processedRows = << >>
    /\ result = NoResult
    /\ error = NoError
    /\ pass = 1
    /\ firstResult = NoResult
    /\ firstShape = "undecided"

(***************************************************************************)
(* mapDisplayTypeToCode called on its own                                  *)
(***************************************************************************)

\* The display strings: the labels of DICTIONARY and their translations,
\* other texts, each as written and lower-cased, with and without white
\* space around it.
DisplayTexts ==
    { W(label) : label \in DOMAIN DICTIONARY }
    \cup { W(DICTIONARY[label]) : label \in DOMAIN DICTIONARY }
    \cup { EMPTY, W("Unknown"), W("N/A"), W("Capacity Review"), W("AZ Enablement/Whitelisting"),
           W("RI Enablement/Whitelisting"), W("ZONAL ENABLEMENT"), W("AUMENTO DE COTA"),
           << "Quota Increase", COMMA, "Quota Decrease" >> }

DisplayInputs ==
    { before \o text \o after :
        before \in { EMPTY, << SP >> },
        text \in DisplayTexts \cup { toLowerCase(t) : t \in DisplayTexts },
        after \in { EMPTY, << SP >> } }

InitDisplay ==
    /\ CallIdle
    /\ displayType \in DisplayInputs
    /\ displayCode = NotCalled
    /\ OthersIdle("display")
    /\ AppIdle

MapDisplay ==
    /\ displayCode = NotCalled
    /\ displayCode' = mapDisplayTypeToCode(displayType)
    /\ OthersUnchanged("display")
    /\ UNCHANGED << displayType, callVars, appVars >>

NextDisplay == MapDisplay

SpecDisplay == InitDisplay /\ [][NextDisplay]_vars

(***************************************************************************)
(* detectSeparator called on its own                                       *)
(***************************************************************************)

MaxSepCount == 2

\* A non-empty line with the given numbers of tabs, commas and semicolons.
sepLine(tabs, commas, semicolons) ==
    << "a" >> \o [ i \in 1..tabs |-> TAB ] \o << "b" >> \o [ i \in 1..commas |-> COMMA ]
    \o [ i \in 1..semicolons |-> SEMI ] \o << "c" >>

plainLine == sepLine(0, 0, 0)

SepLines ==
    { sepLine(t, c, s) : t, c, s \in 0..MaxSepCount } \cup { sepLine(5, 2, 0) }

\* Line n of the lines scanned, when it is not the only one.
LastScanned ==
    { plainLine, sepLine(0, MaxSepCount, 0), sepLine(1, 0, 1), sepLine(0, 1, MaxSepCount) }

\* The lines after the lines scanned: each has more of one character than
\* any line scanned.
Beyond ==
    { << >>, << sepLine(6, 0, 0) >>, << sepLine(0, 6, 0) >>,
      << plainLine, sepLine(0, 0, 6) >> }

\* n lines, the first and the last of them with separators, then the lines
\* beyond when n is the scan limit.
SeparatorInputs ==
    { << first >> : first \in SepLines }
    \cup
    { << first >> \o [ i \in 1..(n - 2) |-> plainLine ] \o << last >> \o beyond :
        n \in { 2, ScanLimit }, first \in SepLines, last \in LastScanned,
        beyond \in Beyond }

InitSeparator ==
    /\ CallIdle
    /\ sepLines \in SeparatorInputs
    /\ sepResult = NotCalled
    /\ OthersIdle("separator")
    /\ AppIdle

DetectSeparator ==
    /\ sepResult = NotCalled
    /\ sepResult' = detectSeparator(sepLines)
    /\ OthersUnchanged("separator")
    /\ UNCHANGED << sepLines, callVars, appVars >>

NextSeparator == DetectSeparator

SpecSeparator == InitSeparator /\ [][NextSeparator]_vars

(***************************************************************************)
(* getVisibleHeaders and the memo of CategorySection, each run on its own  *)
(***************************************************************************)

\* Header lists: the final headers, in another order, with a column twice,
\* with other columns, with the two names in other letter case, without
\* either column.
HeaderLists ==
    { finalHeaders,
      << "Status", "Cores", "Zone", "Region", "VM Type", "Request Type", "Subscription ID" >>,
      << "Zone", "Cores", "Zone", "Cores" >>,
      << "Original ID", "Cores", "RDQuota", "Zone", "Notes" >>,
      << "zone", "Zone", "CORES", "Cores", "Zones" >>,
      << "Subscription ID", "Region" >>,
      << "Cores" >>,
      << >> }

\* What getVisibleHeaders takes as its code: RequestTypeCode | undefined.
RowCodes == RequestTypeCodes \cup { Undefined }

SectionRow(code) == [ requestTypeCode |-> code ]

SectionDatas ==
    { << >> }
    \cup { << SectionRow(c) >> : c \in RequestTypeCodes }
    \cup { << SectionRow(c), SectionRow(d) >> :
              c, d \in { "ZONAL_ENABLEMENT", "QUOTA_INCREASE", "UNKNOWN" } }

InitVisible ==
    /\ CallIdle
    /\ visHeaders \in HeaderLists
    /\ visCode \in RowCodes
    /\ sectionData \in SectionDatas
    /\ visResult = Null
    /\ visibleHeaders = Null
    /\ OthersIdle("visible")
    /\ AppIdle

GetVisibleHeaders ==
    /\ visResult = Null
    /\ visResult' = Some(getVisibleHeaders(visHeaders, visCode))
    /\ OthersUnchanged("visible")
    /\ UNCHANGED << visHeaders, visCode, sectionData, visibleHeaders, callVars, appVars >>

RenderCategorySection ==
    /\ visibleHeaders = Null
    /\ visibleHeaders' = Some(sectionVisibleHeaders(sectionData, visHeaders))
    /\ OthersUnchanged("visible")
    /\ UNCHANGED << visHeaders, visCode, sectionData, visResult, callVars, appVars >>

NextVisible ==
    \/ GetVisibleHeaders
    \/ RenderCategorySection

SpecVisible == InitVisible /\ [][NextVisible]_vars

(***************************************************************************)
(* cleanVmType called on its own                                           *)
(***************************************************************************)

MaxVmLen == 3

\* The pieces of a VM type: a size, a version, the marker in three letter
\* cases, a space.
VmPieces == { "D2", "v3", "(XIO)", "(xio)", "(Xio)", SP }

VmValues == UNION { [ 1..n -> VmPieces ] : n \in 0..MaxVmLen }

InitCleaner ==
    /\ CallIdle
    /\ vmValue \in VmValues
    /\ vmResult = Null
    /\ OthersIdle("cleaner")
    /\ AppIdle

CleanVmType ==
    /\ vmResult = Null
    /\ vmResult' = Some(cleanVmType(vmValue))
    /\ OthersUnchanged("cleaner")
    /\ UNCHANGED << vmValue, callVars, appVars >>

NextCleaner == CleanVmType

SpecCleaner == InitCleaner /\ [][NextCleaner]_vars

(***************************************************************************)
(* CopyButton: clicks, the awaited clipboard writes, the reset timer and    *)
(* the unmount, interleaved                                                 *)
(***************************************************************************)

InitCopy ==
    /\ CallIdle
    /\ CopyIdle
    /\ OthersIdle("copy")
    /\ AppIdle

\* A set-state call on an unmounted component changes nothing; it is
\* recorded as made.
SetCopied(value) ==
    /\ copied' = IF mounted THEN value ELSE copied
    /\ lateSetCopied' = (lateSetCopied \/ ~mounted)

\* showCopiedFeedback: setCopied(true), the timer of timeoutRef.current
\* cleared, a new one set and kept in the ref.
ShowCopiedFeedback ==
    /\ SetCopied(TRUE)
    /\ pendingTimers' = (pendingTimers \ { timeoutRef }) \cup { nextTimer }
    /\ timeoutRef' = nextTimer
    /\ nextTimer' = nextTimer + 1

NoFeedback == UNCHANGED << copied, lateSetCopied, pendingTimers, timeoutRef, nextTimer >>

CopyAt(c, where) == copyPc' = [ copyPc EXCEPT ![c] = where ]

\* handleCopy from the copy-event fallback on: execCommand copies, refuses or
\* throws; when it has not copied, writeText is called, which throws at once
\* where there is no navigator.clipboard and is awaited otherwise.
Fallback(c) ==
    \E execCommand \in { "copied", "refused", "threw" }, hasClipboard \in BOOLEAN :
        IF execCommand = "copied"
        THEN ShowCopiedFeedback /\ CopyAt(c, "done")
        ELSE /\ NoFeedback
             /\ CopyAt(c, IF hasClipboard THEN "awaitWriteText" ELSE "done")

\* A click on the button: handleCopy runs to its first await or to its end.
Click ==
    /\ mounted
    /\ \E c \in 1..MaxCopies :
         /\ copyPc[c] = "idle"
         /\ \A b \in 1..(c - 1) : copyPc[b] # "idle"
         /\ \/ NoFeedback /\ CopyAt(c, "awaitWrite")
            \/ Fallback(c)
    /\ OthersUnchanged("copy")
    /\ UNCHANGED << mounted, callVars, appVars >>

\* await navigator.clipboard.write resolves.
WriteResolves ==
    /\ \E c \in 1..MaxCopies :
         /\ copyPc[c] = "awaitWrite"
         /\ ShowCopiedFeedback
         /\ CopyAt(c, "done")
    /\ OthersUnchanged("copy")
    /\ UNCHANGED << mounted, callVars, appVars >>

\* await navigator.clipboard.write rejects: the catch, then the fallback.
WriteRejects ==
    /\ \E c \in 1..MaxCopies :
         /\ copyPc[c] = "awaitWrite"
         /\ Fallback(c)
    /\ OthersUnchanged("copy")
    /\ UNCHANGED << mounted, callVars, appVars >>

\* await navigator.clipboard.writeText resolves.
WriteTextResolves ==
    /\ \E c \in 1..MaxCopies :
         /\ copyPc[c] = "awaitWriteText"
         /\ ShowCopiedFeedback
         /\ CopyAt(c, "done")
    /\ OthersUnchanged("copy")
    /\ UNCHANGED << mounted, callVars, appVars >>

\* await navigator.clipboard.writeText rejects: the last catch.
WriteTextRejects ==
    /\ \E c \in 1..MaxCopies :
         /\ copyPc[c] = "awaitWriteText"
         /\ NoFeedback
         /\ CopyAt(c, "done")
    /\ OthersUnchanged("copy")
    /\ UNCHANGED << mounted, callVars, appVars >>

\* The 2000 ms of a pending timer are over: () => setCopied(false).
TimerFires ==
    /\ \E t \in pendingTimers : pendingTimers' = pendingTimers \ { t }
    /\ SetCopied(FALSE)
    /\ OthersUnchanged("copy")
    /\ UNCHANGED << mounted, timeoutRef, nextTimer, copyPc, callVars, appVars >>

\* The cleanup of the effect: the timer of timeoutRef.current is cleared.
Unmount ==
    /\ mounted
    /\ mounted' = FALSE
    /\ pendingTimers' = IF timeoutRef # 0 THEN pendingTimers \ { timeoutRef } ELSE pendingTimers
    /\ OthersUnchanged("copy")
    /\ UNCHANGED << copied, timeoutRef, nextTimer, copyPc, lateSetCopied, callVars, appVars >>

NextCopy ==
    \/ Click
    \/ WriteResolves
    \/ WriteRejects
    \/ WriteTextResolves
    \/ WriteTextRejects
    \/ TimerFires
    \/ Unmount

SpecCopy == InitCopy /\ [][NextCopy]_vars

(***************************************************************************)
(* App: its state machine                                                  *)
(***************************************************************************)

InitApp ==
    /\ CallIdle
    /\ UnitsIdle
    /\ AppIdle

\* Lines 827-995; the set-state calls of one run take effect together.
HandleTransform ==
    /\ LET sets == handleTransformSets(appRawInput)
       IN  /\ appError' = sets.error
           /\ categorizedData' = sets.categorizedData
           /\ transformedData' = sets.transformedData
    /\ unifiedView' = "none"
    /\ heldBefore' = [ entered |-> TRUE, transformedData |-> transformedData,
                       categorizedData |-> categorizedData, unifiedView |-> unifiedView ]
    /\ UNCHANGED << appRawInput, callVars, unitVars >>

\* Lines 997-1003.
HandleClear ==
    /\ appRawInput' = EMPTY
    /\ categorizedData' = Null
    /\ transformedData' = Null
    /\ appError' = Null
    /\ unifiedView' = "none"
    /\ heldBefore' = NoTransform
    /\ UNCHANGED << callVars, unitVars >>

\* Lines 1005-1011.
HandleDataLoaded ==
    /\ \E data \in AppInputs : appRawInput' = data
    /\ categorizedData' = Null
    /\ transformedData' = Null
    /\ appError' = Null
    /\ unifiedView' = "none"
    /\ heldBefore' = NoTransform
    /\ UNCHANGED << callVars, unitVars >>

\* The textarea's onChange.
EditRawInput ==
    /\ \E text \in AppInputs : appRawInput' = text
    /\ heldBefore' = NoTransform
    /\ UNCHANGED << categorizedData, transformedData, appError, unifiedView, callVars, unitVars >>

\* The Clear button of the input box, disabled while the box is empty.
ClearRawInput ==
    /\ appRawInput # EMPTY
    /\ appRawInput' = EMPTY
    /\ heldBefore' = NoTransform
    /\ UNCHANGED << categorizedData, transformedData, appError, unifiedView, callVars, unitVars >>

\* The view button, rendered while transformedData is set.
ToggleView ==
    /\ transformedData # Null
    /\ unifiedView' = IF unifiedView = "none" THEN "full" ELSE "none"
    /\ heldBefore' = NoTransform
    /\ UNCHANGED << appRawInput, categorizedData, transformedData, appError, callVars, unitVars >>

NextApp ==
    \/ HandleTransform
    \/ HandleClear
    \/ HandleDataLoaded
    \/ EditRawInput
    \/ ClearRawInput
    \/ ToggleView

SpecApp == InitApp /\ [][NextApp]_vars


(***************************************************************************)
(* Properties                                                              *)
(***************************************************************************)

\* The call has run its map and filter (and may since have grouped, returned
\* or found nothing left).
Normalized == pc \in { "group", "done" } \/ (pc = "failed" /\ error = ErrNoValidRows)

Finished == pc \in { "done", "failed" }

\* A cell that names the ticket id column.
IdLike(cell) == trim(toLowerCase(cell)) \in { W("id"), W("rdquota"), W("quotaid") }

RowHasIdLike(row) == \E j \in 1..Len(row) : IdLike(row[j])

\* The record the decided shape makes of parsed row k, the header being
\* parsed row h (both counted from 1).
RecordOf(k, h) ==
    IF shape = "canonical"
    THEN canonicalRow(headerMap, parsedRows[k], k - h - 1)
    ELSE rawRow(rawColumns(headerMap), parsedRows[k])

\* The cell a data row holds in the column resolved to idx, "" when the row
\* has no such cell.
CellOf(values, idx) ==
    IF idx # -1 /\ idx + 1 \in 1..Len(values) THEN values[idx + 1] ELSE EMPTY

ZoneIndex ==
    IF shape = "canonical" THEN findColIndex(headerMap, << "Zone" >>)
    ELSE rawColumns(headerMap).constraintsIndex

CoresIndex ==
    IF shape = "canonical" THEN findColIndex(headerMap, << "Cores" >>)
    ELSE rawColumns(headerMap).eventIdIndex

RequestTypeIndex ==
    IF shape = "canonical" THEN findColIndex(headerMap, << "Request Type" >>)
    ELSE rawColumns(headerMap).ticketIndex

IsRecordOf(row, rows) == \E i \in 1..Len(rows) : rows[i] = row

\* C9: the primary strategy selects the first parsed row that has an id-like
\* cell, and the records are made of the rows after it, one mapped record per
\* such row in order, none of a row before it.
C9_PrimaryHeaderLocation ==
    (tried = << "primary" >> /\ headerInfo.ok) =>
        LET h == headerInfo.headerIndex + 1
        IN  /\ h \in 1..Len(parsedRows)
            /\ RowHasIdLike(parsedRows[h])
            /\ \A k \in 1..(h - 1) : ~RowHasIdLike(parsedRows[k])
            /\ headerInfo.headers = parsedRows[h]
            /\ Normalized =>
                 /\ Len(mappedRows) = Len(parsedRows) - h
                 /\ \A i \in 1..Len(mappedRows) : mappedRows[i] = RecordOf(h + i, h)
                 /\ \A i \in 1..Len(processedRows) : IsRecordOf(processedRows[i], mappedRows)
            /\ result.returned => result.transformed = processedRows

\* Banner lines precede the header, a later row is id-like too, and the
\* call returned records.
C9_Witness ==
    /\ pc = "done"
    /\ tried = << "primary" >>
    /\ headerInfo.headerIndex = 2
    /\ Len(result.transformed) = 2

C9_WitnessRepeatedHeader ==
    /\ pc = "done"
    /\ headerInfo.headerIndex = 0
    /\ Len(parsedRows) = 2
    /\ RowHasIdLike(parsedRows[2])

\* C7: in either mode the Zone of every record is "N/A" when the row's zone
\* cell is blank or missing and the trimmed cell otherwise; it is never "".
C7_ZoneSentinel ==
    Normalized =>
        /\ \A i \in 1..Len(mappedRows) :
             LET cell == CellOf(dataRows[i], ZoneIndex)
             IN  /\ mappedRows[i].Zone # EMPTY
                 /\ trim(cell) = EMPTY => mappedRows[i].Zone = W("N/A")
                 /\ trim(cell) # EMPTY => mappedRows[i].Zone = trim(cell)
        /\ \A i \in 1..Len(processedRows) : processedRows[i].Zone # EMPTY
        /\ result.returned =>
             \A i \in 1..Len(result.transformed) : result.transformed[i].Zone # EMPTY

C7_WitnessRaw ==
    /\ pc = "done"
    /\ shape = "raw"
    /\ Len(result.transformed) = 2
    /\ result.transformed[1].Zone = W("1")
    /\ CellOf(dataRows[2], ZoneIndex) = EMPTY
    /\ result.transformed[2].Zone = W("N/A")

C7_WitnessCanonical ==
    /\ pc = "done"
    /\ shape = "canonical"
    /\ Len(result.transformed) = 2
    /\ result.transformed[1].Zone = W("1")
    /\ CellOf(dataRows[2], ZoneIndex) = EMPTY
    /\ result.transformed[2].Zone = W("N/A")


AZ == W("AZ Enablement/Whitelisting")

\* The header row has a cell that is name up to letter case.
HeaderNames(name) ==
    \E j \in 1..Len(headerInfo.headers) :
        toLowerCase(headerInfo.headers[j]) = toLowerCase(W(name))

C8_ShapeInvariant ==
    /\ shape \in { "undecided", "canonical", "raw" }
    /\ pc \in { "canonical", "raw" } => pc = shape
    /\ shape # "undecided" =>
         ( shape = "canonical" <=>
             /\ HeaderNames("Subscription ID")
             /\ HeaderNames("Request Type")
             /\ HeaderNames("VM Type")
             /\ HeaderNames("Region") )
    /\ Normalized =>
         /\ shape # "undecided"
         /\ Len(mappedRows) = Len(dataRows)
         /\ \A i \in 1..Len(mappedRows) :
              mappedRows[i] =
                 IF shape = "canonical" THEN canonicalRow(headerMap, dataRows[i], i - 1)
                 ELSE rawRow(rawColumns(headerMap), dataRows[i])

\* C8 (amended): the dataset is canonical exactly when the located header row
\* names each of Subscription ID, Request Type, VM Type and Region itself, up
\* to letter case (the raw-export alias lists are not consulted), and raw
\* otherwise; the shape, once decided, stays as it is for the rest of the
\* call, and every data row is normalised in that mode.
C8_ShapeDecision ==
    /\ []C8_ShapeInvariant
    /\ [][(shape # "undecided" /\ pass' = pass) => shape' = shape]_vars

\* C8 as stated: canonical exactly when each of the four fields resolves
\* through its alias list.
C8_Original_ThroughAliases ==
    shape # "undecided" =>
        ( shape = "canonical" <=>
            /\ rawColumns(headerMap).subIdIndex # -1
            /\ rawColumns(headerMap).ticketIndex # -1
            /\ rawColumns(headerMap).skuIndex # -1
            /\ rawColumns(headerMap).regionIndex # -1 )

C8_Witness ==
    /\ pc = "done"
    /\ shape = "canonical"
    /\ Len(mappedRows) = 2
    /\ headerInfo.headerIndex = 1

\* C5 (amended): in raw-export mode a data row whose request-type cell is
\* exactly "AZ Enablement/Whitelisting" gives a record labelled "Zonal
\* Enablement", coded ZONAL_ENABLEMENT, with Cores "N/A" whatever its cores
\* cell holds, and that record is among those returned.
C5_AzEnablementRaw ==
    (Normalized /\ shape = "raw") =>
        \A i \in 1..Len(dataRows) :
            CellOf(dataRows[i], RequestTypeIndex) = AZ =>
                /\ mappedRows[i].RequestType = W("Zonal Enablement")
                /\ mappedRows[i].requestTypeCode = "ZONAL_ENABLEMENT"
                /\ mappedRows[i].Cores = W("N/A")
                /\ IsRecordOf(mappedRows[i], processedRows)
                /\ pc = "done" => IsRecordOf(mappedRows[i], result.transformed)

\* C5 as stated: the same of every accepted input, in either mode.
C5_Original_EitherMode ==
    Normalized =>
        \A i \in 1..Len(dataRows) :
            CellOf(dataRows[i], RequestTypeIndex) = AZ =>
                /\ mappedRows[i].RequestType = W("Zonal Enablement")
                /\ mappedRows[i].requestTypeCode = "ZONAL_ENABLEMENT"
                /\ mappedRows[i].Cores = W("N/A")

C5_Witness ==
    /\ pc = "done"
    /\ shape = "raw"
    /\ \E i \in 1..Len(dataRows) :
         /\ CellOf(dataRows[i], RequestTypeIndex) = AZ
         /\ CellOf(dataRows[i], CoresIndex) = W("-1")
         /\ result.transformed[i].Cores = W("N/A")

\* C6 (amended): a record's Cores is "N/A" only if its code is
\* ZONAL_ENABLEMENT or the row's cores cell itself holds "N/A".
C6_CoresSentinel ==
    Normalized =>
        /\ \A i \in 1..Len(mappedRows) :
             mappedRows[i].Cores = W("N/A") =>
                \/ mappedRows[i].requestTypeCode = "ZONAL_ENABLEMENT"
                \/ trim(CellOf(dataRows[i], CoresIndex)) = W("N/A")
        /\ \A i \in 1..Len(processedRows) : IsRecordOf(processedRows[i], mappedRows)
        /\ pc = "done" => result.transformed = processedRows

\* C6 as stated: Cores is "N/A" only if the code is ZONAL_ENABLEMENT.
C6_Original_OnlyZonal ==
    result.returned =>
        \A i \in 1..Len(result.transformed) :
            result.transformed[i].Cores = W("N/A") =>
                result.transformed[i].requestTypeCode = "ZONAL_ENABLEMENT"

C6_Witness ==
    /\ pc = "done"
    /\ \E i \in 1..Len(mappedRows) :
         /\ result.transformed[i].Cores = W("N/A")
         /\ result.transformed[i].requestTypeCode = "ZONAL_ENABLEMENT"
         /\ CellOf(dataRows[i], CoresIndex) = W("8")

\* C3: in raw-export mode a row is dropped exactly when its zone cell is
\* empty and its Subscription ID, VM Type, Region and request-type values
\* are all empty.
C3_RawEmptyRowFilter ==
    (Normalized /\ shape = "raw") =>
        \A i \in 1..Len(mappedRows) :
            ~IsRecordOf(mappedRows[i], processedRows) <=>
                /\ cellAt(dataRows[i], ZoneIndex) = EMPTY
                /\ mappedRows[i].SubscriptionID = EMPTY
                /\ mappedRows[i].VMType = EMPTY
                /\ mappedRows[i].Region = EMPTY
                /\ cellAt(dataRows[i], RequestTypeIndex) = EMPTY

\* A raw-export data row with nothing in it but (perhaps) its ticket id.
EmptyRawRow(values) ==
    LET cols == rawColumns(headerMap)
    IN  /\ cellAt(values, cols.subIdIndex) = EMPTY
        /\ cellAt(values, cols.skuIndex) = EMPTY
        /\ cellAt(values, cols.regionIndex) = EMPTY
        /\ cellAt(values, cols.ticketIndex) = EMPTY
        /\ cellAt(values, cols.constraintsIndex) = EMPTY

\* C4: a raw-export input whose only data row is empty fails with the
\* no-valid-rows error and returns nothing.
C4_NoValidRows ==
    ( /\ Finished
      /\ shape = "raw"
      /\ rawColumnsError(rawColumns(headerMap)) = NoError
      /\ Len(dataRows) = 1
      /\ EmptyRawRow(dataRows[1]) ) =>
        /\ pc = "failed"
        /\ error = ErrNoValidRows
        /\ ~result.returned

\* C2: an input whose header row is exactly the output header set, with at
\* least one data row that has a Subscription ID, returns records, one for
\* each such row at least.
C2_PreTransformedAccepted ==
    LET withId == { k \in 2..Len(parsedRows) : trim(parsedRows[k][1]) # EMPTY }
    IN  ( /\ Finished
          /\ Len(parsedRows) >= 2
          /\ parsedRows[1] = [ j \in 1..Len(finalHeaders) |-> W(finalHeaders[j]) ]
          /\ withId # {} ) =>
            /\ pc = "done"
            /\ result.returned
            /\ Len(result.transformed) >= Cardinality(withId)

\* C1: the records of a raw-export call, written out under the canonical
\* header row and fed back, are accepted in canonical-input mode and give,
\* row for row, the same requestTypeCode and the same Status.
C1_RefeedIdempotent ==
    (pass = 2 /\ firstShape = "raw" /\ Finished) =>
        /\ pc = "done"
        /\ shape = "canonical"
        /\ Len(result.transformed) = Len(firstResult.transformed)
        /\ \A i \in 1..Len(result.transformed) :
             /\ result.transformed[i].requestTypeCode = firstResult.transformed[i].requestTypeCode
             /\ result.transformed[i].Status = firstResult.transformed[i].Status

\* The order of the header strategies: the primary one runs first, the
\* fallback only after the primary one has raised, and a header the primary
\* one found is the header used.
C10_OrderingPart ==
    /\ tried \in { << >>, << "primary" >>, << "primary", "fallback" >> }
    /\ pc = "header" => tried = << >>
    /\ pc = "fallback" => tried = << "primary" >>
    /\ Len(tried) = 2 => ~robustHeaderDetection(parsedRows).ok
    /\ (Len(tried) >= 1 /\ robustHeaderDetection(parsedRows).ok) =>
         /\ tried = << "primary" >>
         /\ headerInfo = robustHeaderDetection(parsedRows)
    /\ (Len(tried) = 2 /\ headerInfo.ok) => headerInfo = legacyHeaderDetection(parsedRows)

\* C10: primary first, fallback only after the primary strategy has raised,
\* and the call fails with the missing-header error exactly when both
\* strategies fail.
C10_HeaderStrategyOrdering ==
    /\ C10_OrderingPart
    /\ (Finished /\ Len(tried) >= 1) =>
         ( (pc = "failed" /\ error = ErrMissingId) <=>
             /\ ~robustHeaderDetection(parsedRows).ok
             /\ ~legacyHeaderDetection(parsedRows).ok )


\* C11: an input whose header line is followed by no data line, with or
\* without banner lines above the header, fails with the insufficient-rows
\* error and returns no records.
C11_InsufficientRows ==
    (Finished /\ rawInput \in HeaderOnlyInputs) =>
        /\ pc = "failed"
        /\ error = ErrInsufficient
        /\ result = NoResult

\* The part of C11 the code keeps: a header line alone, no banner above it.
C11_HeaderAlone ==
    (Finished /\ rawInput \in HeaderOnlyInputs /\ Len(split(trim(rawInput), NL)) = 1) =>
        /\ pc = "failed"
        /\ error = ErrInsufficient
        /\ result = NoResult

\* No failure ever comes with records.
C11_NoPartialOutput == (pc = "failed") => result = NoResult


\* The header row has a cell that is one of names up to letter case.
HeaderResolves(names) == \E k \in 1..Len(names) : HeaderNames(names[k])

\* The raw-export branch has run, to its throw or to the end of its filter.
RawBranchRan == shape = "raw" /\ (Normalized \/ pc = "failed")

\* The optional cells of a data row read as the cell under the resolved
\* header, "" when no header resolves or the row has no such cell.
OptionalCellsRead(i) ==
    LET cols == rawColumns(headerMap)
        read(idx) == cellAt(dataRows[i], idx)
    IN  /\ cols.ticketIndex = -1 =>
              /\ read(cols.ticketIndex) = EMPTY
              /\ mappedRows[i].RequestType = finalRequestType(EMPTY)
              /\ mappedRows[i].requestTypeCode = "UNKNOWN"
        /\ cols.constraintsIndex = -1 =>
              /\ read(cols.constraintsIndex) = EMPTY
              /\ mappedRows[i].Zone = rawZone(EMPTY)
        /\ cols.eventIdIndex = -1 =>
              /\ read(cols.eventIdIndex) = EMPTY
              /\ mappedRows[i].Cores = rawCores(read(cols.ticketIndex), EMPTY)
        /\ cols.reasonIndex = -1 =>
              /\ read(cols.reasonIndex) = EMPTY
              /\ mappedRows[i].Status = EMPTY
        /\ cols.skuIndex = -1 =>
              /\ read(cols.skuIndex) = EMPTY
              /\ mappedRows[i].VMType = EMPTY

\* C12: in raw-export mode a header row in which no cell resolves for
\* Subscription ID fails with the error naming "Subscription ID"; otherwise
\* one in which none resolves for Region fails with the error naming
\* "Region"; neither produces a record; an absent optional column never
\* fails the call and reads as "".
C12_RequiredRawColumns ==
    RawBranchRan =>
        LET subResolves == HeaderResolves(<< "Subscription ID", "SubscriptionId" >>)
            regionResolves == HeaderResolves(<< "Region", "Location" >>)
        IN  /\ ~subResolves =>
                  /\ pc = "failed" /\ error = ErrMissingSubId
                  /\ mappedRows = << >> /\ result = NoResult
            /\ (subResolves /\ ~regionResolves) =>
                  /\ pc = "failed" /\ error = ErrMissingRegion
                  /\ mappedRows = << >> /\ result = NoResult
            /\ (subResolves /\ regionResolves) =>
                  /\ error \notin { ErrMissingSubId, ErrMissingRegion }
                  /\ Normalized =>
                        /\ Len(mappedRows) = Len(dataRows)
                        /\ \A i \in 1..Len(dataRows) : OptionalCellsRead(i)

\* The part of C12 the code keeps: the same of every header row whose id
\* column resolves in the header map.
C12_WhenIdResolves ==
    rawColumns(headerMap).idIndex # -1 => C12_RequiredRawColumns


\* The rename table: raw ticket text, label, code.
RenameEntry(raw, label, code) == [ raw |-> W(raw), label |-> W(label), code |-> code ]

RenameTable ==
    { RenameEntry("AZ Enablement/Whitelisting", "Zonal Enablement", "ZONAL_ENABLEMENT"),
      RenameEntry("Region Enablement/Whitelisting", "Region Enablement", "REGIONAL_ENABLEMENT"),
      RenameEntry("Whitelisting/Quota Increase", "Region Enablement & Quota Increase",
                  "REGION_ENABLEMENT_QUOTA_INCREASE"),
      RenameEntry("Quota Increase", "Quota Increase", "QUOTA_INCREASE"),
      RenameEntry("Quota Decrease", "Quota Decrease", "QUOTA_DECREASE"),
      RenameEntry("Region Limit Increase", "Region Limit Increase", "REGION_LIMIT_INCREASE"),
      RenameEntry("RI Enablement/Whitelisting", "Reserved Instances", "RESERVED_INSTANCES") }

RenameKeys == { e.raw : e \in RenameTable }

\* The record of data row i carries the table's label and code for its raw
\* request-type value.
Renamed(i) ==
    \E e \in RenameTable :
        /\ e.raw = cellAt(dataRows[i], RequestTypeIndex)
        /\ mappedRows[i].RequestType = e.label
        /\ mappedRows[i].requestTypeCode = e.code

\* C13: in raw-export mode a raw request-type value that is a key of the
\* rename table gives the table's label and code; any other raw value gives
\* that text unchanged as the label and the code UNKNOWN.
C13_RequestTypeRename ==
    (Normalized /\ shape = "raw") =>
        \A i \in 1..Len(dataRows) :
            LET raw == cellAt(dataRows[i], RequestTypeIndex)
            IN  IF raw \in RenameKeys THEN Renamed(i)
                ELSE /\ mappedRows[i].RequestType = raw
                     /\ mappedRows[i].requestTypeCode = "UNKNOWN"

\* The part of C13 the code keeps: the same of every raw value but the empty
\* one, whose label is "Unknown".
C13_RenameOfNonEmpty ==
    (Normalized /\ shape = "raw") =>
        \A i \in 1..Len(dataRows) :
            LET raw == cellAt(dataRows[i], RequestTypeIndex)
            IN  IF raw \in RenameKeys THEN Renamed(i)
                ELSE /\ mappedRows[i].RequestType = IF raw = EMPTY THEN W("Unknown") ELSE raw
                     /\ mappedRows[i].requestTypeCode = "UNKNOWN"


StatusIndex ==
    IF shape = "canonical" THEN findColIndex(headerMap, << "Status" >>)
    ELSE rawColumns(headerMap).reasonIndex

\* The status mapping table: raw text, Status.
StatusTable ==
    { << W("Fulfillment Actions Completed"), W("Fulfilled") >>,
      << W("Verification Successful"), W("Approved") >>,
      << W("Abandoned"), W("Backlogged") >>,
      << W("-"), W("Pending Customer Response") >> }

\* C14: in raw-export mode the Status of every record is the table's entry
\* for the row's raw status value when it has one, and that value unchanged
\* otherwise, the empty string included; the records returned carry it.
C14_RawStatusMapping ==
    (Normalized /\ shape = "raw") =>
        /\ \A i \in 1..Len(dataRows) :
             LET raw == cellAt(dataRows[i], StatusIndex)
             IN  IF \E e \in StatusTable : e[1] = raw
                 THEN \E e \in StatusTable : e[1] = raw /\ mappedRows[i].Status = e[2]
                 ELSE mappedRows[i].Status = raw
        /\ \A i \in 1..Len(processedRows) : IsRecordOf(processedRows[i], mappedRows)
        /\ pc = "done" => result.transformed = processedRows

\* Two table entries and the empty status, in the records returned.
C14_Witness ==
    /\ pc = "done"
    /\ shape = "raw"
    /\ Len(result.transformed) = 2
    /\ cellAt(dataRows[1], StatusIndex) = W("Abandoned")
    /\ result.transformed[1].Status = W("Backlogged")
    /\ cellAt(dataRows[2], StatusIndex) = EMPTY
    /\ result.transformed[2].Status = EMPTY

C14_WitnessTable ==
    /\ pc = "done"
    /\ shape = "raw"
    /\ cellAt(dataRows[1], StatusIndex) = W("Fulfillment Actions Completed")
    /\ result.transformed[1].Status = W("Fulfilled")


\* C15: in raw-export mode a data row whose raw request type is not
\* "AZ Enablement/Whitelisting" gives a record whose Cores is "" when the raw
\* cores value is the literal "-1" and the raw cores value unchanged
\* otherwise; the records returned carry it.
C15_CoresMinusOne ==
    (Normalized /\ shape = "raw") =>
        /\ \A i \in 1..Len(dataRows) :
             LET cores == cellAt(dataRows[i], CoresIndex)
             IN  cellAt(dataRows[i], RequestTypeIndex) # AZ =>
                     mappedRows[i].Cores = IF cores = W("-1") THEN EMPTY ELSE cores
        /\ \A i \in 1..Len(processedRows) : IsRecordOf(processedRows[i], mappedRows)
        /\ pc = "done" => result.transformed = processedRows

\* A returned record of a "Quota Increase" row whose cores cell is "-1".
C15_Witness ==
    /\ pc = "done"
    /\ shape = "raw"
    /\ \E i \in 1..Len(dataRows) :
         /\ cellAt(dataRows[i], RequestTypeIndex) = W("Quota Increase")
         /\ cellAt(dataRows[i], CoresIndex) = W("-1")
         /\ result.transformed[i].Cores = EMPTY

C15_WitnessUnchanged ==
    /\ pc = "done"
    /\ shape = "raw"
    /\ \E i \in 1..Len(dataRows) :
         /\ cellAt(dataRows[i], RequestTypeIndex) = W("Quota Increase")
         /\ cellAt(dataRows[i], CoresIndex) = W("8")
         /\ result.transformed[i].Cores = W("8")


\* The code of a canonical English label, as the rename table gives it.
LabelCode(label) == (CHOOSE e \in RenameTable : e.label = W(label)).code

\* C16 (amended): a string that, lower-cased and trimmed, is one of the
\* seven English labels or its translation in DICTIONARY maps to that
\* label's code, the same for the label and its translation; the seven codes
\* are pairwise distinct and none is UNKNOWN; every other string maps to
\* UNKNOWN.
C16_DisplayToCode ==
    /\ Cardinality({ LabelCode(label) : label \in DOMAIN DICTIONARY }) = 7
    /\ \A label \in DOMAIN DICTIONARY :
         /\ LabelCode(label) \in RequestTypeCodes \ { "UNKNOWN" }
         /\ mapDisplayTypeToCode(W(label)) = LabelCode(label)
         /\ mapDisplayTypeToCode(W(DICTIONARY[label])) = LabelCode(label)
    /\ displayCode # NotCalled =>
         LET normalized == trim(toLowerCase(displayType))
             named == { label \in DOMAIN DICTIONARY :
                          \/ normalized = toLowerCase(W(label))
                          \/ normalized = toLowerCase(W(DICTIONARY[label])) }
         IN  /\ \A label \in named : displayCode = LabelCode(label)
             /\ named = {} => displayCode = "UNKNOWN"

\* C16 as stated: every string that is not one of the fourteen labels maps
\* to UNKNOWN.
C16_Original_EveryOtherString ==
    displayCode # NotCalled =>
        LET named == { label \in DOMAIN DICTIONARY :
                         displayType = W(label) \/ displayType = W(DICTIONARY[label]) }
        IN  /\ \A label \in named : displayCode = LabelCode(label)
            /\ named = {} => displayCode = "UNKNOWN"

\* A translation mapped to the code of its English label.
C16_Witness ==
    /\ displayType = W(DICTIONARY["Quota Increase"])
    /\ displayCode = "QUOTA_INCREASE"
    /\ mapDisplayTypeToCode(W("Quota Increase")) = displayCode

C16_WitnessVariant ==
    /\ displayType = << SP, "zonal enablement" >>
    /\ displayCode = "ZONAL_ENABLEMENT"


\* The positions in transformed of the records labelled label, and the k-th
\* of them in order.
PositionsOf(label) ==
    { i \in 1..Len(result.transformed) : result.transformed[i].RequestType = label }

NthPosition(label, k) ==
    CHOOSE i \in PositionsOf(label) :
        Cardinality({ j \in PositionsOf(label) : j <= i }) = k

\* C17: the keys of categorized are the Request Type labels that occur in
\* transformed; the group of a label is the subsequence of transformed that
\* carries it, in order; every record is in exactly one group.
C17_Grouping ==
    result.returned =>
        /\ DOMAIN result.categorized =
              { result.transformed[i].RequestType : i \in 1..Len(result.transformed) }
        /\ \A label \in DOMAIN result.categorized :
              LET group == result.categorized[label]
              IN  /\ Len(group) = Cardinality(PositionsOf(label))
                  /\ Len(group) >= 1
                  /\ \A k \in 1..Len(group) :
                        group[k] = result.transformed[NthPosition(label, k)]
        /\ \A i \in 1..Len(result.transformed) :
              Cardinality({ label \in DOMAIN result.categorized :
                              IsRecordOf(result.transformed[i], result.categorized[label]) }) = 1

\* Two "Quota Increase" records around one "Zonal Enablement" record.
C17_Witness ==
    /\ pc = "done"
    /\ Len(result.transformed) = 3
    /\ result.transformed[2].RequestType = W("Zonal Enablement")
    /\ result.transformed[1] # result.transformed[3]
    /\ DOMAIN result.categorized = { W("Quota Increase"), W("Zonal Enablement") }
    /\ result.categorized[W("Quota Increase")] = << result.transformed[1], result.transformed[3] >>
    /\ result.categorized[W("Zonal Enablement")] = << result.transformed[2] >>


\* The value data row i holds under the header cell called name.
NamedValue(i, name) == cellAt(dataRows[i], findColIndex(headerMap, << name >>))

\* The data rows of a canonical input that are not structurally empty, and
\* the k-th of them in order.
CanonicalKept ==
    { i \in 1..Len(dataRows) :
        ~ /\ NamedValue(i, "Subscription ID") = EMPTY
          /\ NamedValue(i, "VM Type") = EMPTY
          /\ NamedValue(i, "Region") = EMPTY }

NthKept(k) == CHOOSE i \in CanonicalKept : Cardinality({ j \in CanonicalKept : j <= i }) = k

\* C18: in canonical-input mode a data row is dropped exactly when its
\* Subscription ID, VM Type and Region values are all empty; the rows kept
\* give the records, in input order.
C18_CanonicalEmptyRowFilter ==
    (Normalized /\ shape = "canonical") =>
        /\ Len(mappedRows) = Len(dataRows)
        /\ Len(processedRows) = Cardinality(CanonicalKept)
        /\ \A k \in 1..Len(processedRows) : processedRows[k] = mappedRows[NthKept(k)]
        /\ pc = "done" => result.transformed = processedRows
        /\ CanonicalKept # {} => pc # "failed"

\* Of two data rows the first is empty and dropped, the second is returned.
C18_Witness ==
    /\ pc = "done"
    /\ shape = "canonical"
    /\ Len(dataRows) = 2
    /\ CanonicalKept = { 2 }
    /\ result.transformed = << mappedRows[2] >>

\* A row with a Region and neither Subscription ID nor VM Type is kept.
C18_WitnessRegionOnly ==
    /\ pc = "done"
    /\ shape = "canonical"
    /\ NamedValue(1, "Subscription ID") = EMPTY
    /\ NamedValue(1, "VM Type") = EMPTY
    /\ NamedValue(1, "Region") # EMPTY
    /\ Len(result.transformed) = 1


\* The first 20 lines of the argument, or all of them when there are fewer.
Sampled == SubSeq(sepLines, 1, IF Len(sepLines) < 20 THEN Len(sepLines) ELSE 20)

\* The largest number of c that one sampled line holds.
MaxPerLine(c) ==
    CHOOSE n \in 0..(MaxSepCount + 4) :
        /\ \A i \in 1..Len(Sampled) : countChar(Sampled[i], c) <= n
        /\ n > 0 => \E i \in 1..Len(Sampled) : countChar(Sampled[i], c) = n

\* C19: detectSeparator returns tab if maxTabs >= maxCommas, maxTabs >=
\* maxSemicolons and maxTabs > 0; else comma if maxCommas >= maxSemicolons
\* and maxCommas > 0; else semicolon if maxSemicolons > 0; else tab; the
\* maxima are per line over the first 20 lines, and the lines after the
\* 20th do not change the result.
C19_SeparatorDetection ==
    sepResult # NotCalled =>
        LET maxTabs == MaxPerLine(TAB)
            maxCommas == MaxPerLine(COMMA)
            maxSemicolons == MaxPerLine(SEMI)
        IN  /\ (maxTabs >= maxCommas /\ maxTabs >= maxSemicolons /\ maxTabs > 0) =>
                  sepResult = TAB
            /\ ( /\ ~(maxTabs >= maxCommas /\ maxTabs >= maxSemicolons /\ maxTabs > 0)
                 /\ maxCommas >= maxSemicolons /\ maxCommas > 0 ) => sepResult = COMMA
            /\ ( /\ ~(maxTabs >= maxCommas /\ maxTabs >= maxSemicolons /\ maxTabs > 0)
                 /\ ~(maxCommas >= maxSemicolons /\ maxCommas > 0)
                 /\ maxSemicolons > 0 ) => sepResult = SEMI
            /\ (maxTabs = 0 /\ maxCommas = 0 /\ maxSemicolons = 0) => sepResult = TAB
            /\ sepResult = detectSeparator(Sampled)

\* Line 21 has more commas than any sampled line has tabs, and tab is
\* detected.
C19_Witness ==
    /\ Len(sepLines) = 21
    /\ countChar(sepLines[21], COMMA) = 6
    /\ MaxPerLine(TAB) = 1
    /\ MaxPerLine(COMMA) = 1
    /\ sepResult = TAB

\* The maxima tab = 5, comma = 2 come from different lines.
C19_WitnessFiveTwo ==
    /\ countChar(sepLines[1], TAB) = 5
    /\ MaxPerLine(TAB) = 5
    /\ MaxPerLine(COMMA) = 2
    /\ sepResult = TAB

C19_WitnessSemicolon ==
    /\ MaxPerLine(SEMI) = 2
    /\ MaxPerLine(COMMA) = 1
    /\ MaxPerLine(TAB) = 0
    /\ sepResult = SEMI


\* handleTransform has just run and set an error.
TransformFailed == heldBefore.entered /\ appError # Null

\* C20: when handleTransform runs while results of an earlier transform are
\* held and the new transform fails, transformedData, categorizedData and
\* unifiedView are what they were when the call began.
C20_CallerStateOnFailure ==
    (TransformFailed /\ heldBefore.transformedData # Null) =>
        /\ transformedData = heldBefore.transformedData
        /\ categorizedData = heldBefore.categorizedData
        /\ unifiedView = heldBefore.unifiedView

\* What the code does instead: a failed run leaves no results and the
\* default view, whatever was held.
C20_FailureClearsResults ==
    TransformFailed =>
        /\ transformedData = Null
        /\ categorizedData = Null
        /\ unifiedView = "none"

\* The headers of a list that are not the given ones, in their order.
Without(headers, names) == SelectSeq(headers, LAMBDA h : h \notin names)

AliasLists ==
    { IdAliases,
      << "Subscription ID", "SubscriptionId", "subscription id" >>,
      << "Region", "Location", "region" >>,
      << "UTC Ticket", "Ticket", "Request Type", "Type" >>,
      << "Deployment Constraints", "Zone", "Zones" >>,
      << "Event ID", "Cores", "Core Count" >>,
      << "Reason", "Status", "State" >>,
      << "SKU", "VM Type", "VmSize" >> }

\* The header map has been built.
HeaderMapBuilt == pc \in { "canonical", "raw", "group", "done" } \/ (pc = "failed" /\ shape # "undecided")

\* The positions, from 1, of the header cells whose lower-cased text is k.
CellsNamed(k) ==
    { j \in 1..Len(headerInfo.headers) : toLowerCase(headerInfo.headers[j]) = k }

\* C22: the header map is keyed by the lower-cased header cells and holds for
\* each key the index of the last cell of that name; findColIndex of an alias
\* list is the index held for the first alias, in list order, whose lower-cased
\* name is a key, and -1 when none is; so a header with both "Type" and
\* "UTC Ticket" reads the request type from the "UTC Ticket" column.
C22_ColumnResolution ==
    HeaderMapBuilt =>
        /\ DOMAIN headerMap = { toLowerCase(headerInfo.headers[j]) : j \in 1..Len(headerInfo.headers) }
        /\ \A k \in DOMAIN headerMap :
             /\ headerMap[k] + 1 \in CellsNamed(k)
             /\ \A j \in CellsNamed(k) : j <= headerMap[k] + 1
        /\ \A aliases \in AliasLists :
             LET hits == { a \in 1..Len(aliases) : toLowerCase(W(aliases[a])) \in DOMAIN headerMap }
             IN  findColIndex(headerMap, aliases) =
                    IF hits = {} THEN -1
                    ELSE headerMap[toLowerCase(W(aliases[CHOOSE a \in hits : \A b \in hits : a <= b]))]
        /\ ({ W("type"), W("utc ticket") } \subseteq DOMAIN headerMap /\ RawBranchRan /\ Normalized) =>
             \A i \in 1..Len(dataRows) :
                 mappedRows[i].RequestType =
                     finalRequestType(trim(CellOf(dataRows[i], headerMap[W("utc ticket")])))

\* A header with "Type" before "UTC Ticket" and "region" before "Region": the
\* record returned has the request type of the "UTC Ticket" cell and the
\* region of the last region cell.
C22_Witness ==
    /\ pc = "done"
    /\ shape = "raw"
    /\ headerInfo.headers = << W("ID"), W("Type"), W("Subscription ID"), W("region"),
                               W("UTC Ticket"), W("Region") >>
    /\ headerMap[W("region")] = 5
    /\ rawColumns(headerMap).ticketIndex = 4
    /\ dataRows[1] = << W("102"), W("D4"), W("sub-2"), W("-"), W("Quota Increase"), W("westus") >>
    /\ result.transformed[1].RequestType = W("Quota Increase")
    /\ result.transformed[1].Region = W("westus")

IsMarker(c) == lowerWord(c) = "(xio)"

AllSpace(s) == \A i \in 1..Len(s) : IsSpace(s[i])

\* C23 as stated: cleanVmType removes a "(XIO)" marker, in any letter case, at
\* the end of the value and then trims; it returns "" for an empty value and
\* leaves a marker that occurs elsewhere in place.
C23_Original_TrailingMarkerOnly ==
    vmResult # Null =>
        LET ended == trim(vmValue)
        IN  vmResult[1] = IF ended # EMPTY /\ IsMarker(ended[Len(ended)])
                          THEN trim(SubSeq(ended, 1, Len(ended) - 1))
                          ELSE ended

\* C23: cleanVmType removes every "(XIO)" marker of the value, in any letter
\* case and wherever it stands, and then trims: the result holds no marker and
\* no white space at either end, and is what is left of the value without its
\* markers once the white space at its two ends is dropped; it is "" for an
\* empty value.
C23_CleanVmType ==
    vmResult # Null =>
        LET out == vmResult[1]
            kept == SelectSeq(vmValue, LAMBDA c : ~IsMarker(c))
        IN  /\ vmValue = EMPTY => out = EMPTY
            /\ \A i \in 1..Len(out) : ~IsMarker(out[i])
            /\ out # EMPTY => ~IsSpace(out[1]) /\ ~IsSpace(out[Len(out)])
            /\ \E i, j \in 0..Len(kept) :
                 /\ i + j <= Len(kept)
                 /\ AllSpace(SubSeq(kept, 1, i))
                 /\ AllSpace(SubSeq(kept, Len(kept) - j + 1, Len(kept)))
                 /\ out = SubSeq(kept, i + 1, Len(kept) - j)

\* A marker before the size: it is removed, and the space after it trimmed.
C23_Witness ==
    /\ vmValue = << "(XIO)", SP, "D2" >>
    /\ vmResult = Some(<< "D2" >>)

\* A marker at the end, in lower case.
C23_WitnessTrailing ==
    /\ vmValue = << "D2", SP, "(xio)" >>
    /\ vmResult = Some(<< "D2" >>)

\* C24: in raw-export mode, header location having succeeded, the id column
\* resolves through findColIndex, and the raw-export branch never raises the
\* error that names "ID" or "RDQuota", whatever the header row, cells quoted
\* with white space inside the quotes included.
C24_RedundantIdCheck ==
    (shape = "raw" /\ headerInfo.ok) =>
        /\ findColIndex(headerMap, IdAliases) # -1
        /\ ~(pc = "failed" /\ error = ErrMissingId)

\* The raw-export branch raised the id error on a header row whose id cell
\* was quoted with white space inside the quotes.
C24_RaisedOnQuotedId ==
    /\ shape = "raw"
    /\ pc = "failed"
    /\ error = ErrMissingId
    /\ tried = << "primary" >>
    /\ headerInfo.headers = << W("Subscription ID"), W("Region"), W("UTC Ticket"), << SP, "ID", SP >> >>
    /\ separator = ","
    /\ Len(dataRows) = 1

\* The rows have been parsed and a header strategy has run on them.
StrategyRan == tried # << >>

\* C26: on every list of parsed rows on which robustHeaderDetection raises,
\* legacyHeaderDetection raises too; so the fallback strategy, when it runs,
\* finds no header and the call fails.
C26_FallbackNeverRescues ==
    StrategyRan =>
        /\ ~robustHeaderDetection(parsedRows).ok => ~legacyHeaderDetection(parsedRows).ok
        /\ legacyHeaderDetection(parsedRows).ok =>
               robustHeaderDetection(parsedRows) = legacyHeaderDetection(parsedRows)
        /\ Len(tried) = 2 =>
               /\ tried = << "primary", "fallback" >>
               /\ ~headerInfo.ok
               /\ pc = "failed"
               /\ error = ErrMissingId

\* Both strategies have run on a table with a banner line and no id column,
\* and the call has failed.
C26_Witness ==
    /\ tried = << "primary", "fallback" >>
    /\ pc = "failed"
    /\ Len(parsedRows) = 3
    /\ parsedRows[2] = << W("Subscription ID"), W("UTC Ticket"), W("Region"), W("Reason") >>
    /\ ~robustHeaderDetection(parsedRows).ok
    /\ ~legacyHeaderDetection(parsedRows).ok

\* C27: in every result of transformData all records of one category group
\* carry the same requestTypeCode.
C27_GroupCodeHomogeneity ==
    result.returned =>
        \A label \in DOMAIN result.categorized :
            LET group == result.categorized[label]
            IN  \A i, j \in 1..Len(group) :
                    group[i].requestTypeCode = group[j].requestTypeCode

\* One group holds a record of code ZONAL_ENABLEMENT first and a record of
\* code UNKNOWN after it: the section hides Cores, which the second record has.
C27_MixedGroup ==
    /\ pc = "done"
    /\ shape = "raw"
    /\ DOMAIN result.categorized = { W("Zonal Enablement") }
    /\ Len(result.categorized[W("Zonal Enablement")]) = 2
    /\ result.categorized[W("Zonal Enablement")][1].requestTypeCode = "ZONAL_ENABLEMENT"
    /\ result.categorized[W("Zonal Enablement")][2].requestTypeCode = "UNKNOWN"
    /\ result.categorized[W("Zonal Enablement")][2].Cores = W("16")
    /\ sectionVisibleHeaders(result.categorized[W("Zonal Enablement")], finalHeaders)
         = << "Subscription ID", "Request Type", "VM Type", "Region", "Zone", "Status" >>

\* In canonical-input mode the code is a function of the label, and a group
\* has one code.
C27_CanonicalGroupsHomogeneous ==
    (result.returned /\ shape = "canonical") =>
        \A label \in DOMAIN result.categorized :
            LET group == result.categorized[label]
            IN  \A i, j \in 1..Len(group) :
                    group[i].requestTypeCode = group[j].requestTypeCode

\* The lines of the input as written, the blank ones left out.
WrittenLines ==
    SelectSeq(split(rawInput, NL), LAMBDA l : trim(stripTitlePrefix(l)) # EMPTY)

\* The cells of data line i as written: the line split at the separator,
\* nothing taken off its two ends before.
WrittenCells(i) == parseLine(WrittenLines[headerInfo.headerIndex + 1 + i], separator)

\* C28: every field of the record of a data line is read from the cell that
\* stands in the line, as written, at the position of its header cell; a data
\* line that starts with the separator (its first cell empty) keeps its other
\* cells under their own headers.
C28_ColumnAlignment ==
    (Normalized /\ Len(WrittenLines) = Len(lines)) =>
        \A i \in 1..Len(dataRows) :
            /\ \A j \in 1..Len(headerInfo.headers) :
                 CellOf(dataRows[i], j - 1) = CellOf(WrittenCells(i), j - 1)
            /\ mappedRows[i] =
                 IF shape = "canonical"
                 THEN canonicalRow(headerMap, WrittenCells(i), i - 1)
                 ELSE rawRow(rawColumns(headerMap), WrittenCells(i))

\* A tab-separated data line whose id cell is empty: the line lost its first
\* tab, and the record has the subscription id under ID and the ticket text
\* under Subscription ID.
C28_ShiftedRow ==
    /\ pc = "done"
    /\ pass = 1
    /\ shape = "raw"
    /\ separator = TAB
    /\ Len(dataRows) = 1
    /\ WrittenCells(1)[1] = EMPTY
    /\ WrittenCells(1)[2] = W("sub-1")
    /\ dataRows[1][1] = W("sub-1")
    /\ result.transformed[1].OriginalID = W("sub-1")
    /\ result.transformed[1].SubscriptionID = W("Quota Increase")

\* The same line with commas: trim takes no comma off, and the cells stay.
C28_CommaLineAligned ==
    /\ pc = "done"
    /\ pass = 1
    /\ shape = "raw"
    /\ separator = COMMA
    /\ Len(dataRows) = 1
    /\ dataRows[1][1] = EMPTY
    /\ dataRows[1] = WrittenCells(1)
    /\ result.transformed[1].OriginalID = EMPTY
    /\ result.transformed[1].SubscriptionID = W("sub-1")

\* The Status each mode outputs for a status cell.
CanonicalStatusOf(cell) == orElse(canonicalStatus(cell), W("Pending"))
RawStatusOf(cell) == rawStatus(cell)

\* C29: for every status cell value the Status that canonical-input mode
\* outputs equals the Status that raw-export mode outputs, for the four table
\* entries and for every unmapped value, the empty string included: the record
\* either mode makes of a row carries the Status the other mode gives its cell.
C29_StatusAgreesAcrossModes ==
    Normalized =>
        \A i \in 1..Len(dataRows) :
            LET cell == cellAt(dataRows[i], StatusIndex)
            IN  /\ CanonicalStatusOf(cell) = RawStatusOf(cell)
                /\ mappedRows[i].Status = CanonicalStatusOf(cell)
                /\ mappedRows[i].Status = RawStatusOf(cell)

\* An empty status cell in canonical-input mode: the record says "Pending",
\* where raw-export mode says "".
C29_EmptyStatusDiffers ==
    /\ pc = "done"
    /\ shape = "canonical"
    /\ cellAt(dataRows[1], StatusIndex) = EMPTY
    /\ result.transformed[1].Status = W("Pending")
    /\ RawStatusOf(EMPTY) = EMPTY

\* The part of C29 that holds: the two modes agree on every status cell that
\* is not empty.
C29_AgreeOnNonEmpty ==
    Normalized =>
        \A i \in 1..Len(dataRows) :
            LET cell == cellAt(dataRows[i], StatusIndex)
            IN  cell # EMPTY =>
                    /\ mappedRows[i].Status = CanonicalStatusOf(cell)
                    /\ mappedRows[i].Status = RawStatusOf(cell)

\* C30: after any sequence of handleTransform, handleClear, handleDataLoaded,
\* edits of the raw input and view toggles, transformedData and categorizedData
\* are both null or both set, error is set only when both are null, and
\* unifiedView is 'full' only when the results are present.
C30_ResultErrorExclusivity ==
    /\ (transformedData = Null) <=> (categorizedData = Null)
    /\ appError # Null => (transformedData = Null /\ categorizedData = Null)
    /\ unifiedView = "full" => (transformedData # Null /\ categorizedData # Null)

\* A transform that failed, run while results were shown in the full view:
\* the error is set, the results are gone and the view is back to 'none'.
C30_Witness ==
    /\ heldBefore.entered
    /\ heldBefore.transformedData # Null
    /\ heldBefore.unifiedView = "full"
    /\ appError # Null
    /\ transformedData = Null
    /\ categorizedData = Null
    /\ unifiedView = "none"

\* Results shown in the full view, with no error.
C30_WitnessFullView ==
    /\ unifiedView = "full"
    /\ transformedData # Null
    /\ categorizedData # Null
    /\ appError = Null
    /\ appRawInput = EMPTY

\* C25: for every interleaving of handleCopy with its awaited clipboard
\* writes, the reset timer and the unmount, no setCopied call is made after
\* the component has unmounted, and at most one reset timer is pending.
C25_CopyFeedbackAfterUnmount ==
    /\ ~lateSetCopied
    /\ Cardinality(pendingTimers) <= 1

\* The part of C25 that holds: at most one reset timer is pending, and it is
\* the one timeoutRef holds.
C25_AtMostOnePendingTimer ==
    /\ Cardinality(pendingTimers) <= 1
    /\ pendingTimers \subseteq { timeoutRef }

\* The component unmounted while a clipboard write was awaited; the write
\* resolved, setCopied was called and a reset timer is pending.
C25_LateFeedback ==
    /\ ~mounted
    /\ lateSetCopied
    /\ pendingTimers = { timeoutRef }
    /\ \E c \in 1..MaxCopies : copyPc[c] = "done"

=============================================================================
